---- MODULE Spec2Model ----
(***************************************************************************)
(* AlphaDec codec and the MCP clock tool handlers that call it.            *)
(*                                                                         *)
(* JavaScript BigInt values are modelled as arbitrary-precision naturals:  *)
(* little-endian sequences of base-1000 limbs without leading zero limbs   *)
(* (<<>> is 0n).  Date objects are modelled by their ECMAScript time       *)
(* value, split into Day(t) and TimeWithinDay(t).  Strings are sequences   *)
(* of one-character strings.                                               *)
(***************************************************************************)
EXTENDS Integers, Sequences, FiniteSets

(***************************************************************************)
(* BigInt arithmetic (non-negative values).  The recursive helpers are     *)
(* functions, so that their arguments are evaluated once.                  *)
(***************************************************************************)
LimbBase == 10 * 100

Limbs == Seq(0..(LimbBase - 1))

\* the element of a one-element set
Only(S) == CHOOSE x \in S : TRUE

Big[n \in Nat] == IF n = 0 THEN <<>> ELSE <<n % LimbBase>> \o Big[n \div LimbBase]

BigToNat[a \in Limbs] == IF a = <<>> THEN 0 ELSE Head(a) + LimbBase * BigToNat[Tail(a)]

BigNorm[a \in Limbs] ==
    IF a = <<>> THEN <<>>
    ELSE IF a[Len(a)] = 0 THEN BigNorm[SubSeq(a, 1, Len(a) - 1)]
    ELSE a

Limb(a, i) == IF i <= Len(a) THEN a[i] ELSE 0

BigAddFrom[a \in Limbs, b \in Limbs, i \in Nat, carry \in Nat] ==
    IF i > Len(a) /\ i > Len(b)
    THEN IF carry = 0 THEN <<>> ELSE <<carry>>
    ELSE <<(Limb(a, i) + Limb(b, i) + carry) % LimbBase>>
            \o BigAddFrom[a, b, i + 1, (Limb(a, i) + Limb(b, i) + carry) \div LimbBase]

BigAdd(a, b) == BigAddFrom[a, b, 1, 0]

\* a - b for a >= b
BigSubFrom[a \in Limbs, b \in Limbs, i \in Nat, borrow \in Nat] ==
    IF i > Len(a) THEN <<>>
    ELSE IF Limb(a, i) - Limb(b, i) - borrow < 0
         THEN <<Limb(a, i) - Limb(b, i) - borrow + LimbBase>>
                  \o BigSubFrom[a, b, i + 1, 1]
         ELSE <<Limb(a, i) - Limb(b, i) - borrow>> \o BigSubFrom[a, b, i + 1, 0]

BigSub(a, b) == BigNorm[BigSubFrom[a, b, 1, 0]]

\* a * m for a machine-sized m (m <= 2,000,000)
BigMulSmallFrom[a \in Limbs, m \in Nat, i \in Nat, carry \in Nat] ==
    IF i > Len(a)
    THEN Big[carry]
    ELSE <<(a[i] * m + carry) % LimbBase>>
            \o BigMulSmallFrom[a, m, i + 1, (a[i] * m + carry) \div LimbBase]

BigMulSmall(a, m) == IF m = 0 THEN <<>> ELSE BigMulSmallFrom[a, m, 1, 0]

BigShift[a \in Limbs] == IF a = <<>> THEN <<>> ELSE <<0>> \o a

BigMulFrom[a \in Limbs, b \in Limbs] ==
    IF a = <<>> \/ b = <<>> THEN <<>>
    ELSE BigAdd(BigMulSmall(b, Head(a)), BigShift[BigMulFrom[Tail(a), b]])

\* BigInt `*`
BigMul(a, b) == BigMulFrom[a, b]

\* -1, 0, 1 as a < b, a = b, a > b, for a and b of the same length
BigCmpFrom[a \in Limbs, b \in Limbs, i \in Nat] ==
    IF i = 0 THEN 0
    ELSE IF a[i] < b[i] THEN -1
    ELSE IF a[i] > b[i] THEN 1
    ELSE BigCmpFrom[a, b, i - 1]

BigCmpLen[a \in Limbs, b \in Limbs] ==
    IF Len(a) < Len(b) THEN -1
    ELSE IF Len(a) > Len(b) THEN 1
    ELSE BigCmpFrom[a, b, Len(a)]

BigCmp(a, b) == BigCmpLen[a, b]

BigLe(a, b) == BigCmp(a, b) <= 0

BigLt(a, b) == BigCmp(a, b) < 0

\* largest digit q in lo..hi with q * b <= r (lo satisfies it)
BigQuotDigit[r \in Limbs, b \in Limbs, lo \in Nat, hi \in Nat] ==
    IF lo = hi THEN lo
    ELSE IF BigLe(BigMulSmall(b, (lo + hi + 1) \div 2), r)
         THEN BigQuotDigit[r, b, (lo + hi + 1) \div 2, hi]
         ELSE BigQuotDigit[r, b, lo, ((lo + hi + 1) \div 2) - 1]

\* one step of long division: the next quotient digit dgt is put in front of
\* the quotient q, and dgt * b is taken from the running remainder r
BigDivStepSub[b \in Limbs, q \in Limbs, r \in Limbs, dgt \in Nat] ==
    << <<dgt>> \o q, IF dgt = 0 THEN r ELSE BigSub(r, BigMulSmall(b, dgt)) >>

BigDivStepDigit[b \in Limbs, q \in Limbs, r \in Limbs] ==
    BigDivStepSub[b, q, r, IF BigLt(r, b) THEN 0 ELSE BigQuotDigit[r, b, 1, LimbBase - 1]]

BigDivStep[limb \in Nat, b \in Limbs, qr \in Limbs \X Limbs] ==
    BigDivStepDigit[b, qr[1], BigNorm[<<limb>> \o qr[2]]]

\* long division, most significant limb first: <<quotient, remainder>>
BigDivModFrom[a \in Limbs, b \in Limbs, i \in Nat, qr \in Limbs \X Limbs] ==
    IF i = 0 THEN <<BigNorm[qr[1]], qr[2]>>
    ELSE BigDivModFrom[a, b, i - 1, BigDivStep[a[i], b, qr]]

BigDivMod[a \in Limbs, b \in Limbs] == BigDivModFrom[a, b, Len(a), << <<>>, <<>> >>]

\* BigInt `/` (truncating; operands are non-negative, divisor non-zero)
BigDiv(a, b) == BigDivMod[a, b][1]

\* BigInt `%`
BigMod(a, b) == BigDivMod[a, b][2]

(***************************************************************************)
(* Strings: sequences of one-character strings.                            *)
(***************************************************************************)
Digits == <<"0", "1", "2", "3", "4", "5", "6", "7", "8", "9">>

Letters ==
    <<"A", "B", "C", "D", "E", "F", "G", "H", "I", "J", "K", "L", "M",
      "N", "O", "P", "Q", "R", "S", "T", "U", "V", "W", "X", "Y", "Z">>

IndexOf(table, c) == CHOOSE i \in 1..Len(table) : table[i] = c

IsDigit(c) == \E i \in 1..Len(Digits) : Digits[i] = c

IsUpper(c) == \E i \in 1..Len(Letters) : Letters[i] = c

\* String.prototype.charCodeAt(0) for the characters the model uses
charCodeAt(c) ==
    IF IsDigit(c) THEN 47 + IndexOf(Digits, c)
    ELSE IF IsUpper(c) THEN 64 + IndexOf(Letters, c)
    ELSE IF c = "_" THEN 95
    ELSE IF c = "-" THEN 45
    ELSE IF c = ":" THEN 58
    ELSE IF c = "." THEN 46
    ELSE 97          \* "a": the lower-case letter of the model's alphabet

\* String.fromCharCode(65 + n) for n in 0..25
fromCharCode65(n) == Letters[n + 1]

\* String(n) / template-literal interpolation of a non-negative integer
NumToString[n \in Nat] ==
    IF n < 10 THEN <<Digits[n + 1]>>
    ELSE NumToString[n \div 10] \o <<Digits[(n % 10) + 1]>>

\* Number(str) / BigInt(str) of a string of decimal digits
ParseDigits[s \in Seq(STRING)] ==
    IF s = <<>> THEN 0
    ELSE 10 * ParseDigits[SubSeq(s, 1, Len(s) - 1)] + (charCodeAt(s[Len(s)]) - 48)

\* String.prototype.padStart(len, pad) with a one-character pad
padStart[s \in Seq(STRING), len \in Nat, pad \in STRING] ==
    IF Len(s) >= len THEN s ELSE padStart[<<pad>> \o s, len, pad]

\* s < t under JavaScript string comparison (by UTF-16 code unit)
StrLess[s \in Seq(STRING), t \in Seq(STRING)] ==
    IF t = <<>> THEN FALSE
    ELSE IF s = <<>> THEN TRUE
    ELSE IF charCodeAt(Head(s)) # charCodeAt(Head(t))
         THEN charCodeAt(Head(s)) < charCodeAt(Head(t))
    ELSE StrLess[Tail(s), Tail(t)]

(***************************************************************************)
(* Dates.  A Date is InvalidDate (time value NaN) or [day, ms] with time   *)
(* value day * msPerDay + ms, 0 <= ms < msPerDay.                          *)
(***************************************************************************)
msPerDay == 86400000

InvalidDate == [nan |-> TRUE]

IsValidDate(date) == date # InvalidDate

\* ECMAScript DayFromYear(y): day number of 1 January of year y
DayFromYear(y) ==
    365 * (y - 1970) + ((y - 1969) \div 4) - ((y - 1901) \div 100)
        + ((y - 1601) \div 400)

\* the year Date.UTC takes: years 0..99 stand for 1900..1999
FullYearOf(y) == IF 0 <= y /\ y <= 99 THEN 1900 + y ELSE y

\* Date.UTC(y, 0, 1) as a day number (its time value is a whole number of days)
DateUTC(y) == DayFromYear(FullYearOf(y))

\* Date.prototype.getUTCFullYear (ECMAScript YearFromTime)
getUTCFullYear(date) ==
    LET near == 1970 + (date.day \div 146097) * 400 + ((date.day % 146097) * 400) \div 146097
    IN  CHOOSE y \in (near - 2)..(near + 2) :
            DayFromYear(y) <= date.day /\ date.day < DayFromYear(y + 1)

DateOfDayMs[day0 \in Int, qr \in Limbs \X Limbs] ==
    [day |-> day0 + BigToNat[qr[1]], ms |-> BigToNat[qr[2]]]

\* new Date(Date.UTC(year, 0, 1) + Number(ms)) for a BigInt ms
DateFromYearMs(year, ms) == DateOfDayMs[DateUTC(year), BigDivMod[ms, Big[msPerDay]]]

\* the year taken to start at Date.UTC(y, 0, 0), the last day of the year before
MsSinceYearStartDayZero(date, y) ==
    BigAdd(BigMul(Big[date.day - DateUTC(y) + 1], Big[msPerDay]), Big[date.ms])

\* BigInt(date.getTime() - Date.UTC(y, 0, 1))
MsSinceYearStart(date, y) ==
    BigAdd(BigMul(Big[date.day - DateUTC(y)], Big[msPerDay]), Big[date.ms])

\* -1, 0, 1 as d1.getTime() is less than, equal to, greater than d2.getTime()
DateCmp(d1, d2) ==
    IF d1.day # d2.day THEN (IF d1.day < d2.day THEN -1 ELSE 1)
    ELSE IF d1.ms # d2.ms THEN (IF d1.ms < d2.ms THEN -1 ELSE 1)
    ELSE 0

\* d1.getTime() - d2.getTime() for d1 not before d2, as a BigInt
DateDiff(d1, d2) ==
    BigSub(BigAdd(BigMul(Big[d1.day - d2.day], Big[msPerDay]), Big[d1.ms]),
           Big[d2.ms])

\* |d1.getTime() - d2.getTime()| as a BigInt
DateAbsDiff(d1, d2) ==
    IF DateCmp(d1, d2) >= 0 THEN DateDiff(d1, d2) ELSE DateDiff(d2, d1)

(***************************************************************************)
(* Thrown errors.                                                          *)
(***************************************************************************)
Throw(name, message) == [threw |-> TRUE, name |-> name, message |-> message]

(***************************************************************************)
(* The codec object.  `this` is the alphadec object: its only data field   *)
(* is _SCALER_N.                                                           *)
(***************************************************************************)
SCALER_N == 1000000

BEATS_IN_YEAR == 67600

AlphadecObject == [SCALER_N |-> SCALER_N]

IsLeapYear(y) == (y % 4 = 0 /\ y % 100 # 0) \/ y % 400 = 0

\* every year taken to have 365 days
DaysInYearCommon(y) == 365

DaysInYear(y) == IF IsLeapYear(y) THEN 366 ELSE 365

toBase26(n) ==
    IF n < 0 \/ n > 25
    THEN Throw("Error", <<"Invalid index for Base26.">>)
    ELSE [threw |-> FALSE, value |-> fromCharCode65(n)]

\* encode, lines 10-16: year, length of the year, offset in the year.  For a
\* year 0..99 Date.UTC(y, 0, 1) lies in 1900 + y: msSinceYearStart is some 1900
\* years below zero, so is the period index, and _toBase26 throws (line 44).
encodeYear(this, date) ==
    IF ~IsValidDate(date)
    THEN Throw("RangeError", <<"The number NaN cannot be converted to a BigInt">>)
    ELSE IF date.day < DateUTC(getUTCFullYear(date))
    THEN Throw("Error", <<"Invalid index for Base26.">>)
    ELSE [threw |-> FALSE,
          y |-> getUTCFullYear(date),
          yearTotalMs |->
              BigMul(Big[DaysInYear(getUTCFullYear(date))], Big[msPerDay]),
          msSinceYearStart |-> MsSinceYearStart(date, getUTCFullYear(date))]

\* encode, line 20
encodeBeatIndex(this, l) ==
    IF l.threw THEN l
    ELSE [threw |-> FALSE, y |-> l.y, yearTotalMs |-> l.yearTotalMs,
          msSinceYearStart |-> l.msSinceYearStart,
          totalBeatIndex |->
              BigDiv(BigMul(l.msSinceYearStart, Big[BEATS_IN_YEAR]), l.yearTotalMs)]

\* the offset taken from the beat start rounded down to a whole millisecond
encodeMsOffsetUnscaled(this, l) ==
    IF l.threw THEN l
    ELSE
    LET beatStartMs ==
            BigDiv(BigMul(l.yearTotalMs, l.totalBeatIndex), Big[BEATS_IN_YEAR])
    IN  [threw |-> FALSE, y |-> l.y, yearTotalMs |-> l.yearTotalMs,
         totalBeatIndex |-> l.totalBeatIndex,
         msOffsetInBeat |-> BigToNat[BigSub(l.msSinceYearStart, beatStartMs)]]

\* encode, lines 22-27: millisecond offset inside the beat
encodeMsOffset(this, l) ==
    IF l.threw THEN l
    ELSE
    LET beatStartScaledMs ==
            BigDiv(BigMul(BigMul(l.yearTotalMs, l.totalBeatIndex), Big[this.SCALER_N]),
                   Big[BEATS_IN_YEAR])
        totalScaledMs == BigMul(l.msSinceYearStart, Big[this.SCALER_N])
        scaledMsOffset == BigSub(totalScaledMs, beatStartScaledMs)
    IN  [threw |-> FALSE, y |-> l.y, yearTotalMs |-> l.yearTotalMs,
         totalBeatIndex |-> l.totalBeatIndex,
         msOffsetInBeat |-> BigToNat[BigDiv(scaledMsOffset, Big[this.SCALER_N])]]

\* the bar taken from the beats left in the period, not in the arc
encodeDigitsBarOfPeriod(this, l) ==
    IF l.threw THEN l
    ELSE
    LET p_idx == BigDiv(l.totalBeatIndex, Big[2600])
        rem1  == BigMod(l.totalBeatIndex, Big[2600])
        a_val == BigDiv(rem1, Big[260])
        b_idx == BigDiv(rem1, Big[10])
        t_val == BigMod(rem1, Big[10])
    IN  [threw |-> FALSE, y |-> l.y, yearTotalMs |-> l.yearTotalMs,
         msOffsetInBeat |-> l.msOffsetInBeat,
         p_idx |-> BigToNat[p_idx], a_val |-> BigToNat[a_val],
         b_idx |-> BigToNat[b_idx], t_val |-> BigToNat[t_val]]

\* encode, lines 29-35: mixed-radix digits of the beat index
encodeDigits(this, l) ==
    IF l.threw THEN l
    ELSE
    LET p_idx == BigDiv(l.totalBeatIndex, Big[2600])
        rem1  == BigMod(l.totalBeatIndex, Big[2600])
        a_val == BigDiv(rem1, Big[260])
        rem2  == BigMod(rem1, Big[260])
        b_idx == BigDiv(rem2, Big[10])
        t_val == BigMod(rem2, Big[10])
    IN  [threw |-> FALSE, y |-> l.y, yearTotalMs |-> l.yearTotalMs,
         msOffsetInBeat |-> l.msOffsetInBeat,
         p_idx |-> BigToNat[p_idx], a_val |-> BigToNat[a_val],
         b_idx |-> BigToNat[b_idx], t_val |-> BigToNat[t_val]]

\* encode, lines 37-42: bounds of the containing arc
encodeArc(this, l) ==
    IF l.threw THEN l
    ELSE
    LET currentArcStartBeats == (l.p_idx * 2600) + (l.a_val * 260)
        arcStartScaledMs ==
            BigDiv(BigMul(BigMul(l.yearTotalMs, Big[currentArcStartBeats]),
                          Big[this.SCALER_N]), Big[BEATS_IN_YEAR])
        arcEndScaledMs ==
            BigDiv(BigMul(BigMul(l.yearTotalMs, Big[currentArcStartBeats + 260]),
                          Big[this.SCALER_N]), Big[BEATS_IN_YEAR])
    IN  [threw |-> FALSE, y |-> l.y, msOffsetInBeat |-> l.msOffsetInBeat,
         p_idx |-> l.p_idx, a_val |-> l.a_val, b_idx |-> l.b_idx, t_val |-> l.t_val,
         arcStartMsInYear |-> BigDiv(arcStartScaledMs, Big[this.SCALER_N]),
         arcEndMsInYear |-> BigDiv(arcEndScaledMs, Big[this.SCALER_N])]

\* the returned object, given the letters
encodeReturn(l, periodLetter, barLetter, canonicalMsPart) ==
    [threw |-> FALSE,
     canonical |-> NumToString[l.y] \o <<"_", periodLetter>>
                   \o NumToString[l.a_val] \o <<barLetter>>
                   \o NumToString[l.t_val] \o <<"_">> \o canonicalMsPart,
     year |-> l.y, period |-> l.p_idx, arc |-> l.a_val,
     bar |-> l.b_idx, beat |-> l.t_val,
     msOffsetInBeat |-> l.msOffsetInBeat,
     periodLetter |-> periodLetter,
     barLetter |-> barLetter,
     readable |-> <<periodLetter>> \o NumToString[l.a_val]
                  \o <<":", barLetter>> \o NumToString[l.t_val],
     arcStartMsInYear |-> l.arcStartMsInYear,
     arcEndMsInYear |-> l.arcEndMsInYear]

\* the millisecond part written without padStart
encodeRenderNoPad(this, l) ==
    IF l.threw THEN l
    ELSE IF toBase26(l.p_idx).threw THEN toBase26(l.p_idx)
    ELSE IF toBase26(l.b_idx).threw THEN toBase26(l.b_idx)
    ELSE encodeReturn(l, toBase26(l.p_idx).value, toBase26(l.b_idx).value,
                      NumToString[l.msOffsetInBeat])

\* encode, lines 44-65 (src/lib/alphadec.js, lines 47-72): letters, canonical
\* and readable strings, the result
encodeRender(this, l) ==
    IF l.threw THEN l
    ELSE IF toBase26(l.p_idx).threw THEN toBase26(l.p_idx)
    ELSE IF toBase26(l.b_idx).threw THEN toBase26(l.b_idx)
    ELSE encodeReturn(l, toBase26(l.p_idx).value, toBase26(l.b_idx).value,
                      padStart[NumToString[l.msOffsetInBeat], 6, "0"])

\* alphadec.encode(d), single beat-index division
encode(this, date) ==
    Only({ encodeRender(this, l5) : l5 \in
         { encodeArc(this, l4) : l4 \in
         { encodeDigits(this, l3) : l3 \in
         { encodeMsOffset(this, l2) : l2 \in
         { encodeBeatIndex(this, l1) : l1 \in { encodeYear(this, date) } } } } } })

\* the pattern without its end anchor
MatchCanonicalNoEnd(canon) ==
    /\ Len(canon) >= 16
    /\ \A i \in 1..4 : IsDigit(canon[i])
    /\ canon[5] = "_"
    /\ IsUpper(canon[6])
    /\ IsDigit(canon[7])
    /\ IsUpper(canon[8])
    /\ IsDigit(canon[9])
    /\ canon[10] = "_"
    /\ \A i \in 11..16 : IsDigit(canon[i])

\* /^(\d{4})_([A-Z])(\d)([A-Z])(\d)_([0-9]{6})$/
MatchCanonical(canon) ==
    /\ Len(canon) = 16
    /\ \A i \in 1..4 : IsDigit(canon[i])
    /\ canon[5] = "_"
    /\ IsUpper(canon[6])
    /\ IsDigit(canon[7])
    /\ IsUpper(canon[8])
    /\ IsDigit(canon[9])
    /\ canon[10] = "_"
    /\ \A i \in 11..16 : IsDigit(canon[i])

\* decode, lines 68-69 and 71: the match, or the error that names the input
decodeMatch(canon) ==
    IF ~MatchCanonical(canon)
    THEN Throw("Error", <<"Bad AlphaDec canonical string: ", canon>>)
    ELSE [threw |-> FALSE,
          yStr |-> SubSeq(canon, 1, 4), pLtr |-> canon[6], aStr |-> <<canon[7]>>,
          bLtr |-> canon[8], tStr |-> <<canon[9]>>, msStr |-> SubSeq(canon, 11, 16)]

\* decode, lines 72-83: year, scaled length of the year, beat count
decodeBeats(this, m) ==
    IF m.threw THEN m
    ELSE [threw |-> FALSE,
          year |-> ParseDigits[m.yStr],
          yearTotalScaledMs |->
              BigMul(BigMul(Big[DaysInYear(ParseDigits[m.yStr])], Big[msPerDay]),
                     Big[this.SCALER_N]),
          totalBeats |->
              Big[((charCodeAt(m.pLtr) - 65) * 2600) + (ParseDigits[m.aStr] * 260)
                  + ((charCodeAt(m.bLtr) - 65) * 10) + ParseDigits[m.tStr]],
          msStr |-> m.msStr]

\* the millisecond field added without scaling it by _SCALER_N
decodeDateUnscaledField(this, l) ==
    IF l.threw THEN l
    ELSE
    LET beatStartScaledMs ==
            BigDiv(BigMul(l.yearTotalScaledMs, l.totalBeats), Big[BEATS_IN_YEAR])
        totalScaledMs == BigAdd(beatStartScaledMs, Big[ParseDigits[l.msStr]])
        totalMsSinceYearStart == BigDiv(totalScaledMs, Big[this.SCALER_N])
    IN  [threw |-> FALSE, value |-> DateFromYearMs(l.year, totalMsSinceYearStart)]

\* decode, lines 85-91: start of the beat, offset in the year, the Date
decodeDate(this, l) ==
    IF l.threw THEN l
    ELSE
    LET beatStartScaledMs ==
            BigDiv(BigMul(l.yearTotalScaledMs, l.totalBeats), Big[BEATS_IN_YEAR])
        totalScaledMs ==
            BigAdd(beatStartScaledMs,
                   BigMul(Big[ParseDigits[l.msStr]], Big[this.SCALER_N]))
        totalMsSinceYearStart == BigDiv(totalScaledMs, Big[this.SCALER_N])
    IN  [threw |-> FALSE, value |-> DateFromYearMs(l.year, totalMsSinceYearStart)]

\* alphadec.decode(canon), single beat-index multiplication
decode(this, canon) ==
    Only({ decodeDate(this, l) : l \in
         { decodeBeats(this, m) : m \in { decodeMatch(canon) } } })

(***************************************************************************)
(* src/lib/alphadec.js: the codec with successive truncated divisions.     *)
(***************************************************************************)
\* the sizes truncated to whole milliseconds before they are scaled
unitSizesWholeMs(this, daysInYear) ==
    LET yearTotalMs == BigMul(Big[daysInYear], Big[msPerDay])
        periodSize == BigDiv(yearTotalMs, Big[26])
        arcSize == BigDiv(periodSize, Big[10])
        barSize == BigDiv(arcSize, Big[26])
        beatSize == BigDiv(barSize, Big[10])
    IN  [period |-> BigMul(periodSize, Big[this.SCALER_N]),
         arc |-> BigMul(arcSize, Big[this.SCALER_N]),
         bar |-> BigMul(barSize, Big[this.SCALER_N]),
         beat |-> BigMul(beatSize, Big[this.SCALER_N])]

\* period, arc, bar and beat sizes in scaled milliseconds (lines 18-23, 91-96)
unitSizesScaled(this, daysInYear) ==
    LET yearTotalScaledMs ==
            BigMul(BigMul(Big[daysInYear], Big[msPerDay]), Big[this.SCALER_N])
        periodSizeScaled == BigDiv(yearTotalScaledMs, Big[26])
        arcSizeScaled == BigDiv(periodSizeScaled, Big[10])
        barSizeScaled == BigDiv(arcSizeScaled, Big[26])
        beatSizeScaled == BigDiv(barSizeScaled, Big[10])
    IN  [period |-> periodSizeScaled, arc |-> arcSizeScaled,
         bar |-> barSizeScaled, beat |-> beatSizeScaled]

\* encode, lines 10-23: year, scaled offset in the year, unit sizes.  For a
\* year 0..99 the offset is some 1900 years below zero, so is the period
\* index, and _toBase26 throws (line 47).
encodeLibYear(this, date) ==
    IF ~IsValidDate(date)
    THEN Throw("RangeError", <<"The number NaN cannot be converted to a BigInt">>)
    ELSE IF date.day < DateUTC(getUTCFullYear(date))
    THEN Throw("Error", <<"Invalid index for Base26 single char conversion.">>)
    ELSE [threw |-> FALSE,
          y |-> getUTCFullYear(date),
          remainingScaledMs |->
              BigMul(MsSinceYearStart(date, getUTCFullYear(date)), Big[this.SCALER_N]),
          size |-> unitSizesScaled(this, DaysInYear(getUTCFullYear(date)))]

\* `q = remainingScaledMs / size; remainingScaledMs -= q * size`
takeUnits[remainingScaledMs \in Limbs, size \in Limbs] ==
    [idx |-> BigDiv(remainingScaledMs, size),
     remainingScaledMs |->
         BigSub(remainingScaledMs, BigMul(BigDiv(remainingScaledMs, size), size))]

\* encode, lines 25-28: period
encodeLibPeriod(this, l) ==
    IF l.threw THEN l
    ELSE [threw |-> FALSE, y |-> l.y, size |-> l.size,
          p |-> takeUnits[l.remainingScaledMs, l.size.period]]

\* encode, lines 30-36: arc and the bounds of the arc
encodeLibArc(this, l) ==
    IF l.threw THEN l
    ELSE
    LET a == takeUnits[l.p.remainingScaledMs, l.size.arc]
        currentArcStartScaledMs ==
            BigAdd(BigMul(l.p.idx, l.size.period), BigMul(a.idx, l.size.arc))
    IN  [threw |-> FALSE, y |-> l.y, size |-> l.size, p_idx |-> l.p.idx,
         a |-> a,
         arcStartMsInYear |-> BigDiv(currentArcStartScaledMs, Big[this.SCALER_N]),
         arcEndMsInYear |->
             BigDiv(BigAdd(currentArcStartScaledMs, l.size.arc), Big[this.SCALER_N])]

\* encode, lines 39-40: bar
encodeLibBar(this, l) ==
    IF l.threw THEN l
    ELSE [threw |-> FALSE, y |-> l.y, size |-> l.size, p_idx |-> l.p_idx,
          a_val |-> l.a.idx, arcStartMsInYear |-> l.arcStartMsInYear,
          arcEndMsInYear |-> l.arcEndMsInYear,
          b |-> takeUnits[l.a.remainingScaledMs, l.size.bar]]

\* encode, lines 42-45: beat and the millisecond offset inside the beat
encodeLibBeat(this, l) ==
    IF l.threw THEN l
    ELSE
    LET t == takeUnits[l.b.remainingScaledMs, l.size.beat]
    IN  [threw |-> FALSE, y |-> l.y,
         p_idx |-> BigToNat[l.p_idx], a_val |-> BigToNat[l.a_val],
         b_idx |-> BigToNat[l.b.idx], t_val |-> BigToNat[t.idx],
         msOffsetInBeat |->
             BigToNat[BigDiv(t.remainingScaledMs, Big[this.SCALER_N])],
         arcStartMsInYear |-> l.arcStartMsInYear,
         arcEndMsInYear |-> l.arcEndMsInYear]

\* alphadec.encode(d), src/lib/alphadec.js
encodeLib(this, date) ==
    Only({ encodeRender(this, l5) : l5 \in
         { encodeLibBeat(this, l4) : l4 \in
         { encodeLibBar(this, l3) : l3 \in
         { encodeLibArc(this, l2) : l2 \in
         { encodeLibPeriod(this, l1) : l1 \in { encodeLibYear(this, date) } } } } } })

\* decode, lines 76-77 and 80: the match, or the error that names the input
decodeLibMatch(canon) ==
    IF ~MatchCanonical(canon)
    THEN Throw("Error",
               <<"Bad AlphaDec canonical string (format YYYY_PaBt_MMMMMM): ", canon>>)
    ELSE [threw |-> FALSE,
          yyyyStr |-> SubSeq(canon, 1, 4), pLtr |-> canon[6],
          arcStr |-> <<canon[7]>>, barLtr |-> canon[8], beatStr |-> <<canon[9]>>,
          msOffsetStr |-> SubSeq(canon, 11, 16)]

\* decode, lines 82-109: the sum of the unit sizes, the Date
decodeLibDate(this, m) ==
    IF m.threw THEN m
    ELSE
    LET year == ParseDigits[m.yyyyStr]
        pIndex == charCodeAt(m.pLtr) - 65
        arcVal == ParseDigits[m.arcStr]
        barIndex == charCodeAt(m.barLtr) - 65
        beatVal == ParseDigits[m.beatStr]
        msOffsetInBeat_input == ParseDigits[m.msOffsetStr]
        size == unitSizesScaled(this, DaysInYear(year))
        totalScaledMsFromUnits ==
            BigAdd(BigAdd(BigAdd(BigMul(Big[pIndex], size.period),
                                 BigMul(Big[arcVal], size.arc)),
                          BigAdd(BigMul(Big[barIndex], size.bar),
                                 BigMul(Big[beatVal], size.beat))),
                   BigMul(Big[msOffsetInBeat_input], Big[this.SCALER_N]))
        totalMsSinceYearStart_final ==
            BigDiv(totalScaledMsFromUnits, Big[this.SCALER_N])
    IN  [threw |-> FALSE,
         value |-> DateFromYearMs(year, totalMsSinceYearStart_final)]

\* alphadec.decode(canon), src/lib/alphadec.js
decodeLib(this, canon) ==
    Only({ decodeLibDate(this, m) : m \in { decodeLibMatch(canon) } })

(***************************************************************************)
(* Host facilities the tool handlers use: calendar fields of a Date, ISO    *)
(* strings, regular expressions.                                           *)
(***************************************************************************)
\* days of a common year before the first of each month
MonthStarts == <<0, 31, 59, 90, 120, 151, 181, 212, 243, 273, 304, 334, 365>>

\* days of year y before the first of month m (1..13; 13 is the next January)
DaysBeforeMonth(y, m) == MonthStarts[m] + (IF m > 2 /\ IsLeapYear(y) THEN 1 ELSE 0)

DaysInMonth(y, m) == DaysBeforeMonth(y, m + 1) - DaysBeforeMonth(y, m)

\* ECMAScript MakeDay(year, month, date): month is 0-based and may overflow
MakeDay(year, month, date) ==
    DayFromYear(year + (month \div 12))
        + DaysBeforeMonth(year + (month \div 12), (month % 12) + 1) + date - 1

\* Date.UTC(year, month, date) as a day number
DateUTCDay(year, month, date) == MakeDay(FullYearOf(year), month, date)

\* ECMAScript TimeClip: time values beyond 8.64e15 ms are NaN
TimeClip(day, ms) ==
    IF day < -100000000 \/ day > 100000000 \/ (day = 100000000 /\ ms > 0)
    THEN InvalidDate
    ELSE [day |-> day, ms |-> ms]

\* ECMAScript MakeDate(day, time) for 0 <= time <= msPerDay, clipped
MakeDate(day, time) ==
    IF time = msPerDay THEN TimeClip(day + 1, 0) ELSE TimeClip(day, time)

MakeTime(hour, min, sec, ms) == (hour * 3600000) + (min * 60000) + (sec * 1000) + ms

DayWithinYear(date) == date.day - DayFromYear(getUTCFullYear(date))

\* Date.prototype.getUTCMonth (0-based)
getUTCMonth(date) ==
    CHOOSE m \in 0..11 :
        /\ DaysBeforeMonth(getUTCFullYear(date), m + 1) <= DayWithinYear(date)
        /\ DayWithinYear(date) < DaysBeforeMonth(getUTCFullYear(date), m + 2)

\* Date.prototype.getUTCDate
getUTCDate(date) ==
    DayWithinYear(date) - DaysBeforeMonth(getUTCFullYear(date), getUTCMonth(date) + 1) + 1

\* Date.prototype.getUTCDay (0 is Sunday; 1 January 1970 was a Thursday)
getUTCDay(date) == (date.day + 4) % 7

getUTCHours(date) == date.ms \div 3600000

getUTCMinutes(date) == (date.ms \div 60000) % 60

getUTCSeconds(date) == (date.ms \div 1000) % 60

getUTCMilliseconds(date) == date.ms % 1000

Pad(n, len) == padStart[NumToString[n], len, "0"]

\* the year of an ISO string: four digits, or a sign and six digits
IsoYear(y) ==
    IF y < 0 THEN <<"-">> \o Pad(-y, 6)
    ELSE IF y > 9999 THEN <<"+">> \o Pad(y, 6)
    ELSE Pad(y, 4)

\* the characters YYYY-MM-DDTHH:mm:ss.sssZ of a valid Date
IsoString(date) ==
    IsoYear(getUTCFullYear(date)) \o <<"-">> \o Pad(getUTCMonth(date) + 1, 2)
        \o <<"-">> \o Pad(getUTCDate(date), 2) \o <<"T">> \o Pad(getUTCHours(date), 2)
        \o <<":">> \o Pad(getUTCMinutes(date), 2) \o <<":">>
        \o Pad(getUTCSeconds(date), 2) \o <<".">>
        \o Pad(getUTCMilliseconds(date), 3) \o <<"Z">>

\* Date.prototype.toISOString
toISOString(date) ==
    IF ~IsValidDate(date)
    THEN Throw("RangeError", <<"Invalid time value">>)
    ELSE [threw |-> FALSE, value |-> IsoString(date)]

\* regular expressions without alternation: "#" stands for \d, "@" for [A-Z],
\* any other character for itself; the pattern is anchored at both ends
ClassMatch(p, c) == IF p = "#" THEN IsDigit(c) ELSE IF p = "@" THEN IsUpper(c) ELSE p = c

Matches(s, pattern) ==
    /\ Len(s) = Len(pattern)
    /\ \A i \in 1..Len(pattern) : ClassMatch(pattern[i], s[i])

\* RegExp.prototype.test for a pattern with optional groups, given as the set
\* of its expansions
Test(patterns, s) == \E pattern \in patterns : Matches(s, pattern)

\* \d{4}-\d{2}-\d{2}
DatePattern == <<"#", "#", "#", "#", "-", "#", "#", "-", "#", "#">>

\* \d{4}-\d{2}-\d{2}T\d{2}:\d{2}
MinutePattern == DatePattern \o <<"T", "#", "#", ":", "#", "#">>

\* (:\d{2})?
OptSeconds == {<<>>, <<":", "#", "#">>}

\* (\.\d{1,3})?
OptFraction == {<<>>, <<".", "#">>, <<".", "#", "#">>, <<".", "#", "#", "#">>}

\* /^\d{4}-\d{2}-\d{2}T\d{2}:\d{2}(:\d{2})?(\.\d{1,3})?Z$/
IsoUtcPatterns ==
    { MinutePattern \o sec \o frac \o <<"Z">> : sec \in OptSeconds, frac \in OptFraction }

\* /^\d{4}-\d{2}-\d{2}T\d{2}:\d{2}(:\d{2})?(\.\d{1,3})?$/
IsoLocalPatterns ==
    { MinutePattern \o sec \o frac : sec \in OptSeconds, frac \in OptFraction }

\* /^\d{4}-\d{2}-\d{2}T\d{2}:\d{2}(:\d{2})?Z$/
IsoUtcSecondsOptPatterns == { MinutePattern \o sec \o <<"Z">> : sec \in OptSeconds }

\* /^\d{4}-\d{2}-\d{2}T\d{2}:\d{2}:\d{2}Z$/
ISO_UTC_SECONDS_RE == { MinutePattern \o <<":", "#", "#", "Z">> }

\* /^\d{4}_[A-Z]\d[A-Z]\d_[0-9]{6}$/
CanonicalPatterns ==
    { <<"#", "#", "#", "#", "_", "@", "#", "@", "#", "_", "#", "#", "#", "#", "#", "#">> }

\* the pattern without its end anchor: anything may follow the six digits
CanonicalPrefixTest(patterns, s) ==
    \E pattern \in patterns : Len(s) >= Len(pattern) /\ Matches(SubSeq(s, 1, Len(pattern)), pattern)

\* /^[A-Z]\d[A-Z]\d$/
CodePatterns == { <<"@", "#", "@", "#">> }

\* /^\d{4}-\d{2}-\d{2}$/
DateOnlyPatterns == { DatePattern }

\* the fields of a string that matches IsoUtcPatterns
IsoFields(s) ==
    LET rest == SubSeq(s, 17, Len(s) - 1)
        hasSec == Len(rest) >= 3 /\ rest[1] = ":"
        fracStr == IF hasSec THEN SubSeq(rest, 5, Len(rest)) ELSE SubSeq(rest, 2, Len(rest))
    IN  [year |-> ParseDigits[SubSeq(s, 1, 4)],
         month |-> ParseDigits[SubSeq(s, 6, 7)],
         day |-> ParseDigits[SubSeq(s, 9, 10)],
         hour |-> ParseDigits[SubSeq(s, 12, 13)],
         min |-> ParseDigits[SubSeq(s, 15, 16)],
         hasSec |-> hasSec,
         sec |-> IF hasSec THEN ParseDigits[SubSeq(rest, 2, 3)] ELSE 0,
         fracLen |-> Len(fracStr),
         ms |-> ParseDigits[SubSeq(fracStr \o <<"0", "0", "0">>, 1, 3)]]

\* the string is in the ECMAScript date-time string format with legal
\* element values
IsoStrictlyValid(f) ==
    /\ f.fracLen \in {0, 3}
    /\ (f.fracLen = 0 \/ f.hasSec)
    /\ f.month \in 1..12
    /\ f.day >= 1
    /\ f.day <= DaysInMonth(f.year, f.month)

\* what a lenient host parser also takes: a day of the month up to 31 (it
\* rolls over into the next month), fractions of one or two digits, a
\* fraction after the minutes
IsoLenientlyValid(f) ==
    /\ f.month \in 1..12
    /\ f.day \in 1..31

IsoTimeValid(f) ==
    /\ f.min <= 59
    /\ f.sec <= 59
    /\ (f.hour <= 23 \/ (f.hour = 24 /\ f.min = 0 /\ f.sec = 0 /\ f.ms = 0))

\* Date.parse(s) / new Date(s) for a string s that matches IsoUtcPatterns.
\* Strings outside the ECMAScript format, or with illegal element values, are
\* NaN on a strict host and read field by field on a lenient one.
DateParseFields(f, lenient) ==
    IF IsoTimeValid(f) /\ (IsoStrictlyValid(f) \/ (lenient /\ IsoLenientlyValid(f)))
    THEN MakeDate(MakeDay(f.year, f.month - 1, f.day),
                  MakeTime(f.hour, f.min, f.sec, f.ms))
    ELSE InvalidDate

DateParse(s, lenient) == Only({ DateParseFields(f, lenient) : f \in { IsoFields(s) } })

(***************************************************************************)
(* Numbers that can leave the machine range of the model are a sign and a   *)
(* BigInt magnitude: [neg, abs].                                            *)
(***************************************************************************)
Num(n) == [neg |-> n < 0, abs |-> Big[IF n < 0 THEN -n ELSE n]]

NumOfBig(neg, abs) == [neg |-> neg /\ abs # <<>>, abs |-> abs]

NumNeg(n) == NumOfBig(~n.neg, n.abs)

\* a - b
NumMinus(a, b) ==
    IF a.neg = b.neg
    THEN IF BigLe(b.abs, a.abs) THEN NumOfBig(a.neg, BigSub(a.abs, b.abs))
         ELSE NumOfBig(~a.neg, BigSub(b.abs, a.abs))
    ELSE NumOfBig(a.neg, BigAdd(a.abs, b.abs))

\* Math.floor(n / k) for a machine-sized k > 0
NumFloorDiv(n, k) ==
    IF ~n.neg THEN NumOfBig(FALSE, BigDiv(n.abs, Big[k]))
    ELSE NumOfBig(TRUE, BigDiv(BigAdd(n.abs, Big[k - 1]), Big[k]))

\* an optional parameter: left out, or given with a value
Undefined == [undefined |-> TRUE]

Some(v) == [value |-> v]

\* date.getTime()
getTime(date) ==
    IF date.day >= 0
    THEN NumOfBig(FALSE, BigAdd(BigMul(Big[date.day], Big[msPerDay]), Big[date.ms]))
    ELSE NumOfBig(TRUE, BigSub(BigMul(Big[-date.day], Big[msPerDay]), Big[date.ms]))

\* the Date whose day number is the BigInt days (negated if neg) plus the
\* machine-sized dayShift, at ms milliseconds into the day
DateOfBigDay(neg, days, dayShift, ms) ==
    IF Len(days) > 3 THEN InvalidDate
    ELSE TimeClip((IF neg THEN -BigToNat[days] ELSE BigToNat[days]) + dayShift, ms)

\* new Date(n) for an integral Number n of milliseconds
NewDateOfMs(n) ==
    IF ~n.neg
    THEN DateOfBigDay(FALSE, BigDivMod[n.abs, Big[msPerDay]][1], 0,
                      BigToNat[BigDivMod[n.abs, Big[msPerDay]][2]])
    ELSE IF BigMod(n.abs, Big[msPerDay]) = <<>>
         THEN DateOfBigDay(TRUE, BigDiv(n.abs, Big[msPerDay]), 0, 0)
         ELSE DateOfBigDay(TRUE, BigDiv(n.abs, Big[msPerDay]), -1,
                           msPerDay - BigToNat[BigMod(n.abs, Big[msPerDay])])

\* n * 1000 for an integral Number n
NumTimes1000(n) == NumOfBig(n.neg, BigMul(n.abs, Big[1000]))

\* a + b
NumPlus(a, b) == NumMinus(a, NumNeg(b))

(***************************************************************************)
(* Time zones the host knows and their offsets from UTC.                    *)
(***************************************************************************)
HostZones == {"UTC", "Asia/Tokyo", "Asia/Kolkata", "America/New_York"}

\* new Intl.DateTimeFormat(undefined, {timeZone: tz}) does not throw
IntlAcceptsZone(tz) == tz \in HostZones

\* the day number of the n-th Sunday of month (0-based) of year
NthSunday(year, month, n) ==
    MakeDay(year, month, 1) + ((7 - ((MakeDay(year, month, 1) + 4) % 7)) % 7) + (7 * (n - 1))

\* America/New_York keeps daylight time from the second Sunday of March,
\* 07:00 UTC, to the first Sunday of November, 06:00 UTC (rule of 2007)
NewYorkDaylight(date) ==
    /\ DateCmp(date, [day |-> NthSunday(getUTCFullYear(date), 2, 2), ms |-> 7 * 3600000]) >= 0
    /\ DateCmp(date, [day |-> NthSunday(getUTCFullYear(date), 10, 1), ms |-> 6 * 3600000]) < 0

\* minutes the zone's wall clock is ahead of UTC at the instant date
ZoneOffsetMinutes(tz, date) ==
    CASE tz = "Asia/Tokyo" -> 540
      [] tz = "Asia/Kolkata" -> 330
      [] tz = "America/New_York" -> IF NewYorkDaylight(date) THEN -240 ELSE -300
      [] OTHER -> 0

\* the Date whose UTC fields are the wall-clock fields of date in zone tz
WallClock(tz, date) ==
    MakeDate(date.day + ((date.ms + (ZoneOffsetMinutes(tz, date) * 60000)) \div msPerDay),
             (date.ms + (ZoneOffsetMinutes(tz, date) * 60000)) % msPerDay)

\* new Intl.DateTimeFormat("en-US", {..., timeZone: tz}).format(date): the
\* formatted text is given by the fields shown (style) and the wall clock
IntlFormat(style, tz, date) ==
    IF ~IsValidDate(date)
    THEN Throw("RangeError", <<"Invalid time value">>)
    ELSE [threw |-> FALSE,
          value |-> [style |-> style, timeZone |-> tz, wall |-> WallClock(tz, date)]]

\* date.toLocaleString('sv-SE', {timeZone: tz, hour12: false}): 'YYYY-MM-DD HH:MM:SS'
toLocaleStringSv(tz, date) ==
    IF ~IsValidDate(date) THEN <<"I", "n", "v", "a", "l", "i", "d", " ", "D", "a", "t", "e">>
    ELSE [SubSeq(IsoString(WallClock(tz, date)), 1, 19) EXCEPT ![11] = " "]

\* String.prototype.replace(' ', 'T'): the first blank becomes T
replaceBlankByT(s) ==
    IF \E k \in 1..Len(s) : s[k] = " "
    THEN [s EXCEPT ![CHOOSE k \in 1..Len(s) : s[k] = " " /\ \A j \in 1..(k - 1) : s[j] # " "] = "T"]
    ELSE s

(***************************************************************************)
(* Tool handlers (MyMCP.init).  A handler body either returns its result    *)
(* or throws; either way it carries the codec calls it made, in order.      *)
(***************************************************************************)
Returned(value, log) == [threw |-> FALSE, value |-> value, calls |-> log]

Thrown(e, log) == [threw |-> TRUE, name |-> e.name, message |-> e.message, calls |-> log]

NoError == [threw |-> FALSE]

\* new Error(message)
Error(message) == Throw("Error", message)

CodecCall(fn, arg) == [fn |-> fn, arg |-> arg]

\* { content: [{ type: "text", text }] }
TextResult(text) == [content |-> <<[type |-> "text", text |-> text]>>]

\* { content: [{ type: "text", text }], error: true }
ErrorResult(text) == [content |-> <<[type |-> "text", text |-> text]>>, error |-> TRUE]

\* JSON.stringify(value, null, 2): the text that is the JSON of value
JSONstringify(value) == [json |-> value]

\* e instanceof Error ? e.message : String(e) (every thrown value is an Error)
errorMessageOf(e) == e.message

\* a handler without try/catch: the exception leaves the handler and the
\* promise it returned is rejected
tryNoCatch(prefix, r) ==
    [response |-> IF r.threw
                  THEN [rejected |-> TRUE, name |-> r.name, message |-> r.message]
                  ELSE r.value,
     calls |-> r.calls,
     raised |-> IF r.threw THEN Throw(r.name, r.message) ELSE NoError]

\* try { body } catch (e) { return { content: [{ type: "text",
\* text: `Error in <tool>: ${message}` }], error: true } }
tryCatch(prefix, r) ==
    [response |-> IF r.threw
                  THEN ErrorResult(<<prefix>> \o errorMessageOf(r))
                  ELSE r.value,
     calls |-> r.calls,
     raised |-> IF r.threw THEN Throw(r.name, r.message) ELSE NoError]

\* isValidIANATimeZone
isValidIANATimeZone(tz) ==
    IF tz = "" \/ Len(tz) < 2 THEN FALSE ELSE IntlAcceptsZone(tz)

(***************************************************************************)
(* Inputs.                                                                 *)
(***************************************************************************)
MaxDelta == 2

YearSpan == 1

SpreadBeats == 3

PairDelta == 1

\* years of the four-digit range: a common century year, a leap century
\* year, the last year, and a run of consecutive years with a leap year
Years == {1000, 2000, 9999} \cup (2024..(2024 + YearSpan))

\* beat indices whose start is probed: roll-overs of every unit, beats that
\* start on a whole millisecond (multiples of 169), the end of the year, and
\* beats spread over the year
AnchorBeats ==
    {0, 1, 10, 169, 170, 260, 338, 365, 366, 2600, 33800, 67431, 67599, 67600}
        \cup { ((j * BEATS_IN_YEAR) \div (SpreadBeats + 1)) + j : j \in 1..SpreadBeats }

YearTotalMs(y) == BigMul(Big[DaysInYear(y)], Big[msPerDay])

\* first whole millisecond at or after the start of beat k of year y
BeatFirstMs(y, k) ==
    BigDiv(BigAdd(BigMul(YearTotalMs(y), Big[k]), Big[BEATS_IN_YEAR - 1]),
           Big[BEATS_IN_YEAR])

\* millisecond offsets in year y at distance delta from the start of beat k
OffsetsAt(y, k, deltas) ==
    LET base == BeatFirstMs(y, k)
        at(delta) == IF delta >= 0 THEN BigAdd(base, Big[delta])
                     ELSE BigSub(base, Big[-delta])
    IN  { at(delta) : delta \in
            { e \in deltas : /\ (e < 0 => BigLe(Big[-e], base))
                             /\ BigLt(at(e), YearTotalMs(y)) } }

YearOffsets(y, beats, deltas) == UNION { OffsetsAt(y, k, deltas) : k \in beats }

Instants ==
    UNION { { DateFromYearMs(y, ms) :
                ms \in YearOffsets(y, AnchorBeats, (-MaxDelta)..MaxDelta) } :
            y \in Years }

Str16(y, unit, ms) == NumToString[y] \o <<"_">> \o unit \o <<"_">> \o ms

\* well-formed canonical strings
GoodStrings ==
    { Str16(2025, <<"L", "3", "T", "5">>, <<"0", "0", "0", "0", "0", "0">>),
      Str16(2024, <<"Z", "9", "Z", "9">>, <<"4", "6", "7", "7", "8", "6">>) }

BadChars == {"a", "_", "-", "0", "A"}

\* strings obtained from s by replacing one character, cutting it short, or
\* adding one character in front or behind
Variants(s) ==
    { [s EXCEPT ![i] = c] : i \in 1..Len(s), c \in BadChars }
        \cup { SubSeq(s, 1, n) : n \in 0..(Len(s) - 1) }
        \cup { s \o <<c>> : c \in BadChars }
        \cup { <<c>> \o s : c \in BadChars }

\* well-formed strings of a beat that starts on a whole millisecond (index
\* 3380 = 20 * 169), of a millisecond field beyond the width of a beat, and
\* of a year below 100
AlignedStrings ==
    { Str16(2025, <<"B", "3", "A", "0">>, <<"0", "0", "0", "0", "0", "0">>),
      Str16(2025, <<"Z", "9", "Z", "9">>, <<"9", "9", "9", "9", "9", "9">>),
      Pad(50, 4) \o <<"_", "A", "0", "A", "0", "_", "0", "0", "0", "0", "0", "0">> }

DecodeInputs ==
    GoodStrings
        \cup AlignedStrings
        \cup UNION { Variants(s) : s \in GoodStrings }
        \cup { <<"n", "o", "t", "-", "a", "-", "t", "i", "m", "e", "s", "t", "a", "m", "p">>,
               Str16(2025, <<"1", "9", "T", "5">>, <<"0", "0", "0", "0", "0", "0">>) }

(***************************************************************************)
(* State.                                                                  *)
(***************************************************************************)
VARIABLES
    alphadec,   \* the exported codec object
    impl,       \* which codec file is under test: "beat" or "lib"
    pc,         \* next operation of the scenario
    d,          \* the Date given to encode (NoDate when decode gets a string)
    d2,         \* the second Date of a pair (NoDate otherwise)
    canon,      \* the string given to decode
    enc,        \* what encode(d) returned or threw
    enc2,       \* what encode(d2) returned or threw
    dec,        \* what decode(canon) returned or threw
    calls,      \* the codec calls in progress, one per concurrent caller
    request,    \* the tool call the server received last
    response,   \* what its handler returned, or the exception that left it
    codecCalls, \* the codec calls that handler made, in order
    raised      \* the error thrown inside that handler's try block, if any

concVars == <<calls>>

toolVars == <<request, response, codecCalls, raised>>

vars == <<alphadec, impl, pc, d, d2, canon, enc, enc2, dec, concVars, toolVars>>

NoDate == [none |-> TRUE]

Pending == [pending |-> TRUE]

\* no concurrent callers, no tool call received
Idle ==
    /\ calls = <<>>
    /\ request = Pending
    /\ response = Pending
    /\ codecCalls = <<>>
    /\ raised = Pending

Impls == {"beat", "lib"}

Encode(i, this, date) == IF i = "beat" THEN encode(this, date) ELSE encodeLib(this, date)

Decode(i, this, s) == IF i = "beat" THEN decode(this, s) ELSE decodeLib(this, s)

(***************************************************************************)
(* Round trips and decoding of arbitrary strings.                          *)
(***************************************************************************)
InitRoundTrip ==
    /\ pc = "encode"
    /\ d \in Instants
    /\ canon = <<>>

InitDecode ==
    /\ pc = "decode"
    /\ d = NoDate
    /\ canon \in DecodeInputs

Init ==
    /\ alphadec = AlphadecObject
    /\ impl \in Impls
    /\ d2 = NoDate
    /\ enc = Pending
    /\ enc2 = Pending
    /\ dec = Pending
    /\ Idle
    /\ (InitRoundTrip \/ InitDecode)

\* result = alphadec.encode(d)
EncodeCall ==
    /\ pc = "encode"
    /\ enc' = Encode(impl, alphadec, d)
    /\ canon' = IF enc'.threw THEN canon ELSE enc'.canonical
    /\ pc' = IF enc'.threw THEN "done" ELSE "decode"
    /\ UNCHANGED <<alphadec, impl, d, d2, enc2, dec, concVars, toolVars>>

\* result = alphadec.decode(canon)
DecodeCall ==
    /\ pc = "decode"
    /\ dec' = Decode(impl, alphadec, canon)
    /\ pc' = "done"
    /\ UNCHANGED <<alphadec, impl, d, d2, canon, enc, enc2, concVars, toolVars>>

\* again = alphadec.encode(alphadec.decode(result.canonical))
ReencodeCall ==
    /\ pc = "done"
    /\ d # NoDate
    /\ dec # Pending
    /\ ~dec.threw
    /\ enc2' = Encode(impl, alphadec, dec.value)
    /\ pc' = "again"
    /\ UNCHANGED <<alphadec, impl, d, d2, canon, enc, dec, concVars, toolVars>>

Next == EncodeCall \/ DecodeCall \/ ReencodeCall

Spec == Init /\ [][Next]_vars

(***************************************************************************)
(* Pairs of instants: two instants of one year, or one offset from the     *)
(* start of a common year and of a leap year.                              *)
(***************************************************************************)
PairBeats == {0, 10, 260, 2600, 67600}

PairDeltas == ((-PairDelta)..PairDelta) \cup {9, 10}

PairYears == 2024..(2024 + YearSpan)

LeapBeats == {0, 1, 100, 364, 365, 366, 2600, 33800, 67600}

InitPairSameYear ==
    \E y \in PairYears :
        \E m1, m2 \in YearOffsets(y, PairBeats, PairDeltas) :
            /\ BigLt(m1, m2)
            /\ d = DateFromYearMs(y, m1)
            /\ d2 = DateFromYearMs(y, m2)

InitPairLeap ==
    \E yc \in { y \in Years : ~IsLeapYear(y) }, yl \in { y \in Years : IsLeapYear(y) } :
        \E m \in YearOffsets(yc, LeapBeats, (-PairDelta)..PairDelta) :
            /\ d = DateFromYearMs(yc, m)
            /\ d2 = DateFromYearMs(yl, m)

InitPair ==
    /\ alphadec = AlphadecObject
    /\ impl \in Impls
    /\ pc = "pair"
    /\ canon = <<>>
    /\ enc = Pending
    /\ enc2 = Pending
    /\ dec = Pending
    /\ Idle
    /\ (InitPairSameYear \/ InitPairLeap)

\* r1 = alphadec.encode(d); r2 = alphadec.encode(d2)
EncodePair ==
    /\ pc = "pair"
    /\ enc' = Encode(impl, alphadec, d)
    /\ enc2' = Encode(impl, alphadec, d2)
    /\ pc' = "done"
    /\ UNCHANGED <<alphadec, impl, d, d2, canon, dec, concVars, toolVars>>

NextPair == EncodePair

SpecPair == InitPair /\ [][NextPair]_vars

(***************************************************************************)
(* Concurrent callers.  Each caller runs one encode or decode call, one     *)
(* group of statements at a time, interleaved with the other callers; all   *)
(* callers use the one exported alphadec object.                            *)
(***************************************************************************)
NumCallers == 2

Callers == 1..NumCallers

ConcDates ==
    { DateFromYearMs(2025, BeatFirstMs(2025, 170)),
      DateFromYearMs(2024, BigAdd(BeatFirstMs(2024, 33800), Big[7])) }

ConcStrings ==
    { Str16(2025, <<"L", "3", "T", "5">>, <<"0", "0", "0", "0", "0", "0">>),
      Str16(2025, <<"1", "9", "T", "5">>, <<"0", "0", "0", "0", "0", "0">>) }

NewCall(op, arg) ==
    [op |-> op, arg |-> arg, stage |-> 0, l |-> Pending, overlapped |-> FALSE]

\* the argument of an encode call is its Date, of a decode call its string
NewCalls ==
    { NewCall("encode", date) : date \in ConcDates }
        \cup { NewCall("decode", [canon |-> s]) : s \in ConcStrings }

\* number of statement groups of a call
NumStages(i, op) ==
    IF op = "encode" THEN 6 ELSE IF i = "beat" THEN 3 ELSE 2

\* the locals of an encode call after its next group of statements
EncodeStage(i, this, c) ==
    IF i = "beat"
    THEN CASE c.stage = 0 -> encodeYear(this, c.arg)
           [] c.stage = 1 -> encodeBeatIndex(this, c.l)
           [] c.stage = 2 -> encodeMsOffset(this, c.l)
           [] c.stage = 3 -> encodeDigits(this, c.l)
           [] c.stage = 4 -> encodeArc(this, c.l)
           [] c.stage = 5 -> encodeRender(this, c.l)
    ELSE CASE c.stage = 0 -> encodeLibYear(this, c.arg)
           [] c.stage = 1 -> encodeLibPeriod(this, c.l)
           [] c.stage = 2 -> encodeLibArc(this, c.l)
           [] c.stage = 3 -> encodeLibBar(this, c.l)
           [] c.stage = 4 -> encodeLibBeat(this, c.l)
           [] c.stage = 5 -> encodeRender(this, c.l)

\* the locals of a decode call after its next group of statements
DecodeStage(i, this, c) ==
    IF i = "beat"
    THEN CASE c.stage = 0 -> decodeMatch(c.arg.canon)
           [] c.stage = 1 -> decodeBeats(this, c.l)
           [] c.stage = 2 -> decodeDate(this, c.l)
    ELSE CASE c.stage = 0 -> decodeLibMatch(c.arg.canon)
           [] c.stage = 1 -> decodeLibDate(this, c.l)

\* a call that has returned or thrown
CallDone(i, c) == c.stage = NumStages(i, c.op) \/ (c.stage > 0 /\ c.l.threw)

CallRunning(i, c) == c.stage > 0 /\ ~CallDone(i, c)

\* the call after its next group of statements; busy: another call is under way
AdvanceCall(i, this, c, busy) ==
    [op |-> c.op, arg |-> c.arg, stage |-> c.stage + 1,
     l |-> IF c.op = "encode" THEN EncodeStage(i, this, c) ELSE DecodeStage(i, this, c),
     overlapped |-> c.overlapped \/ busy]

\* a call that keeps a coarser scale in this._SCALER_N while it runs and puts
\* the scale back with its last statement
StepCallRescaling(i, this, c, busy) ==
    [call |-> AdvanceCall(i, this, c, busy),
     this |-> IF CallDone(i, AdvanceCall(i, this, c, busy))
              THEN AlphadecObject
              ELSE [this EXCEPT !.SCALER_N = 1000]]

\* one group of statements of encode or decode: they read this._SCALER_N and
\* assign only locals of the call
StepCall(i, this, c, busy) ==
    [call |-> AdvanceCall(i, this, c, busy), this |-> this]

InitConc ==
    /\ alphadec = AlphadecObject
    /\ impl \in Impls
    /\ pc = "calls"
    /\ d = NoDate
    /\ d2 = NoDate
    /\ canon = <<>>
    /\ enc = Pending
    /\ enc2 = Pending
    /\ dec = Pending
    /\ calls \in [Callers -> NewCalls]
    /\ request = Pending
    /\ response = Pending
    /\ codecCalls = <<>>
    /\ raised = Pending

Step(k, op) ==
    /\ pc = "calls"
    /\ calls[k].op = op
    /\ ~CallDone(impl, calls[k])
    /\ \E r \in { StepCall(impl, alphadec, calls[k],
                           \E j \in Callers \ {k} : CallRunning(impl, calls[j])) } :
           /\ calls' = [calls EXCEPT ![k] = r.call]
           /\ alphadec' = r.this
    /\ UNCHANGED <<impl, pc, d, d2, canon, enc, enc2, dec, toolVars>>

\* caller k runs the next statements of its encode call
StepEncode == \E k \in Callers : Step(k, "encode")

\* caller k runs the next statements of its decode call
StepDecode == \E k \in Callers : Step(k, "decode")

NextConc == StepEncode \/ StepDecode

SpecConc == InitConc /\ [][NextConc]_vars

(***************************************************************************)
(* clock_get                                                               *)
(***************************************************************************)
\* zod: timezones is an optional array of at most 15 strings, offsetSeconds
\* an optional integer, adec_canonical_only is optional and "true"
clock_get_schema(args) ==
    /\ (IF args.timezones = Undefined THEN TRUE ELSE Len(args.timezones.value) <= 15)
    /\ (IF args.adec_canonical_only = Undefined THEN TRUE
        ELSE args.adec_canonical_only.value = "true")

\* offsetSeconds ? new Date(base.getTime() + offsetSeconds * 1_000) : base
clock_get_target(base, offsetSeconds) ==
    IF offsetSeconds = Undefined \/ offsetSeconds.value.abs = <<>>
    THEN base
    ELSE NewDateOfMs(NumPlus(getTime(base), NumTimes1000(offsetSeconds.value)))

isPseudo(tz) == tz = "UTC" \/ tz = "Alphadec"

\* { timezone: "UTC", iso, unixtime }
clock_get_utc_entry(target) ==
    [timezone |-> "UTC", iso |-> toISOString(target).value,
     unixtime |-> NumFloorDiv(getTime(target), 1000)]

\* { timezone: tz, time12, time24, dayName, date }
clock_get_zone_entry(tz, target) ==
    [timezone |-> tz,
     time12 |-> IntlFormat("time12", tz, target).value,
     time24 |-> IntlFormat("time24", tz, target).value,
     dayName |-> IntlFormat("weekday", tz, target).value,
     date |-> IntlFormat("date", tz, target).value]

\* the loop with a UTC entry for every "UTC" of the request
clock_get_zone_entriesEveryUTC(requestedZones, target) ==
    LET Kept(tz) == tz # "Alphadec"
        kept == SelectSeq(requestedZones, Kept)
    IN  [k \in 1..Len(kept) |->
            IF kept[k] = "UTC" THEN clock_get_utc_entry(target)
            ELSE clock_get_zone_entry(kept[k], target)]

\* the loop over requestedZones: "Alphadec" is skipped, the first "UTC" gives
\* the UTC entry, later ones nothing, every other zone its entry
clock_get_zone_entries(requestedZones, target) ==
    LET Kept(e) == /\ e.tz # "Alphadec"
                   /\ (e.tz = "UTC" => \A j \in 1..(e.k - 1) : requestedZones[j] # "UTC")
        kept == SelectSeq([k \in 1..Len(requestedZones) |->
                               [k |-> k, tz |-> requestedZones[k]]], Kept)
    IN  [k \in 1..Len(kept) |->
            IF kept[k].tz = "UTC" THEN clock_get_utc_entry(target)
            ELSE clock_get_zone_entry(kept[k].tz, target)]

\* { timezone: "Alphadec", alphadec, ...(showReadable && { readable }) }
clock_get_alphadec_entry(AlphadecData, showReadable) ==
    IF showReadable
    THEN [timezone |-> "Alphadec", alphadec |-> AlphadecData.canonical,
          readable |-> AlphadecData.readable]
    ELSE [timezone |-> "Alphadec", alphadec |-> AlphadecData.canonical]

\* steps 3 and 4: the entries, the preamble, the response
clock_get_respond(requestedZones, target, AlphadecData, showReadable) ==
    LET listed == clock_get_zone_entries(requestedZones, target)
        entries ==
            (IF \E k \in 1..Len(listed) : listed[k].timezone = "UTC"
             THEN listed
             ELSE listed \o <<clock_get_utc_entry(target)>>)
                \o <<clock_get_alphadec_entry(AlphadecData, showReadable)>>
    IN  TextResult([preamble |-> IF showReadable THEN "// Alphadec units (approx): ..." ELSE "",
                    json |-> entries])

\* step 2 onwards, given what alphadec.encode(target) returned or threw
clock_get_zones(args, target, AlphadecData) ==
    LET requestedZones ==
            IF args.timezones # Undefined /\ Len(args.timezones.value) > 0
            THEN args.timezones.value ELSE <<"UTC">>
        AlphadecExplicit == \E k \in 1..Len(requestedZones) : requestedZones[k] = "Alphadec"
        bad == { k \in 1..Len(requestedZones) :
                    ~isPseudo(requestedZones[k]) /\ ~isValidIANATimeZone(requestedZones[k]) }
        suppressFullAlphadec ==
            args.adec_canonical_only # Undefined /\ args.adec_canonical_only.value = "true"
    IN  IF AlphadecData.threw
        THEN Thrown(AlphadecData, <<CodecCall("encode", target)>>)
        ELSE IF bad # {}
        THEN Thrown(Error(<<"Invalid timezone: ",
                            requestedZones[CHOOSE k \in bad : \A j \in bad : k <= j]>>),
                    <<CodecCall("encode", target)>>)
        ELSE Returned(clock_get_respond(requestedZones, target, AlphadecData,
                                        AlphadecExplicit /\ ~suppressFullAlphadec),
                      <<CodecCall("encode", target)>>)

\* the body of the try block
clock_get_body(i, this, args, env) ==
    Only({ clock_get_zones(args, target, Encode(i, this, target)) :
             target \in { clock_get_target(env.now, args.offsetSeconds) } })

clock_get_handler(i, this, args, env) ==
    tryCatch("Error in clock_get: ", clock_get_body(i, this, args, env))

(***************************************************************************)
(* clock_get of the server version 2025_Q9Z0 (part_002): the same handler  *)
(* but for the condition that spreads `readable` into the Alphadec entry.   *)
(***************************************************************************)
\* steps 3 and 4: ...(!(AlphadecExplicit && suppressFullAlphadec) && { readable }),
\* preamble if (AlphadecExplicit && !suppressFullAlphadec)
clock_get_respondQ9Z0(requestedZones, target, AlphadecData, AlphadecExplicit, suppressFullAlphadec) ==
    LET listed == clock_get_zone_entries(requestedZones, target)
        entries ==
            (IF \E k \in 1..Len(listed) : listed[k].timezone = "UTC"
             THEN listed
             ELSE listed \o <<clock_get_utc_entry(target)>>)
                \o <<clock_get_alphadec_entry(AlphadecData,
                                              ~(AlphadecExplicit /\ suppressFullAlphadec))>>
    IN  TextResult([preamble |-> IF AlphadecExplicit /\ ~suppressFullAlphadec
                                 THEN "// Alphadec units (approx): ..." ELSE "",
                    json |-> entries])

\* step 2 onwards, given what alphadec.encode(target) returned or threw
clock_get_zonesQ9Z0(args, target, AlphadecData) ==
    LET requestedZones ==
            IF args.timezones # Undefined /\ Len(args.timezones.value) > 0
            THEN args.timezones.value ELSE <<"UTC">>
        AlphadecExplicit == \E k \in 1..Len(requestedZones) : requestedZones[k] = "Alphadec"
        bad == { k \in 1..Len(requestedZones) :
                    ~isPseudo(requestedZones[k]) /\ ~isValidIANATimeZone(requestedZones[k]) }
        suppressFullAlphadec ==
            args.adec_canonical_only # Undefined /\ args.adec_canonical_only.value = "true"
    IN  IF AlphadecData.threw
        THEN Thrown(AlphadecData, <<CodecCall("encode", target)>>)
        ELSE IF bad # {}
        THEN Thrown(Error(<<"Invalid timezone: ",
                            requestedZones[CHOOSE k \in bad : \A j \in bad : k <= j]>>),
                    <<CodecCall("encode", target)>>)
        ELSE Returned(clock_get_respondQ9Z0(requestedZones, target, AlphadecData,
                                            AlphadecExplicit, suppressFullAlphadec),
                      <<CodecCall("encode", target)>>)

\* the body of the try block
clock_get_bodyQ9Z0(i, this, args, env) ==
    Only({ clock_get_zonesQ9Z0(args, target, Encode(i, this, target)) :
             target \in { clock_get_target(env.now, args.offsetSeconds) } })

clock_get_handlerQ9Z0(i, this, args, env) ==
    tryCatch("Error in clock_get: ", clock_get_bodyQ9Z0(i, this, args, env))

(***************************************************************************)
(* clock_convert_alphadec                                                  *)
(***************************************************************************)
\* zod: direction is one of the two literals, value is a string
clock_convert_alphadec_schema(args) ==
    args.direction \in {"utc_to_alphadec", "alphadec_to_utc"}

\* the test of line 879 with the end anchor left out
testAlphadecValueNoEnd(value) == CanonicalPrefixTest(CanonicalPatterns, value)

\* /^\d{4}_[A-Z]\d[A-Z]\d_[0-9]{6}$/.test(value)
testAlphadecValue(value) == Test(CanonicalPatterns, value)

\* /^\d{4}-\d{2}-\d{2}T\d{2}:\d{2}(:\d{2})?(\.\d{1,3})?Z$/.test(value)
testUtcIsoValue(value) == Test(IsoUtcPatterns, value)

\* lines 867-876, given what alphadec.encode(inputDate) returned or threw
utc_to_alphadec_result(value, inputDate, encodeResult) ==
    IF encodeResult.threw
    THEN Thrown(encodeResult, <<CodecCall("encode", inputDate)>>)
    ELSE Returned(TextResult(JSONstringify([source_utc_iso |-> value,
                                            alphadec |-> encodeResult.canonical])),
                  <<CodecCall("encode", inputDate)>>)

\* lines 863-876, given inputDate = new Date(value)
utc_to_alphadec_encode(i, this, value, inputDate) ==
    IF ~IsValidDate(inputDate)
    THEN Thrown(Error(<<"Invalid date from UTC ISO string: ", value>>), <<>>)
    ELSE utc_to_alphadec_result(value, inputDate, Encode(i, this, inputDate))

\* lines 883-894, given what alphadec.decode(value) returned or threw
alphadec_to_utc_result(value, decodedDate) ==
    IF decodedDate.threw
    THEN Thrown(decodedDate, <<CodecCall("decode", value)>>)
    ELSE IF ~IsValidDate(decodedDate.value)
    THEN Thrown(Error(<<"Invalid AlphaDec string or unable to decode: ", value>>),
                <<CodecCall("decode", value)>>)
    ELSE Returned(TextResult(JSONstringify([source_alphadec |-> value,
                                            utc_iso |-> toISOString(decodedDate.value).value])),
                  <<CodecCall("decode", value)>>)

\* the body of the try block
clock_convert_alphadec_body(i, this, args, env) ==
    IF args.direction = "utc_to_alphadec"
    THEN IF ~testUtcIsoValue(args.value)
         THEN Thrown(Error(<<"Invalid UTC ISO format for \"value\": ", args.value,
                             ". Expected YYYY-MM-DDTHH:MM(:SS)(.mmm)Z.">>), <<>>)
         ELSE Only({ utc_to_alphadec_encode(i, this, args.value, inputDate) :
                       inputDate \in { DateParse(args.value, env.lenient) } })
    ELSE IF ~testAlphadecValue(args.value)
         THEN Thrown(Error(<<"Invalid AlphaDec format for \"value\": ", args.value,
                             ". Expected YYYY_PaBt_MMMMMM.">>), <<>>)
         ELSE Only({ alphadec_to_utc_result(args.value, decodedDate) :
                       decodedDate \in { Decode(i, this, args.value) } })

clock_convert_alphadec_handler(i, this, args, env) ==
    tryCatch("Error in clock_convert_alphadec: ",
             clock_convert_alphadec_body(i, this, args, env))

(***************************************************************************)
(* clock_delta_alphadec                                                    *)
(***************************************************************************)
\* zod: both codes match /^[A-Z]\d[A-Z]\d$/
clock_delta_alphadec_schema(args) ==
    /\ Test(CodePatterns, args.alphadec_start)
    /\ Test(CodePatterns, args.alphadec_end)

\* try/catch whose catch block reads e.message
tryCatchMessage(prefix, r) ==
    [response |-> IF r.threw THEN ErrorResult(<<prefix>> \o r.message) ELSE r.value,
     calls |-> r.calls,
     raised |-> IF r.threw THEN Throw(r.name, r.message) ELSE NoError]

\* `${currentYear}_${code}_000000`
fullCanonical(currentYear, code) ==
    NumToString[currentYear] \o <<"_">> \o code \o <<"_", "0", "0", "0", "0", "0", "0">>

\* the beat count inside the period, the period letter left out
alphadecToBeatsInPeriod(code) ==
    (ParseDigits[<<code[2]>>] * 260) + ((charCodeAt(code[3]) - 65) * 10)
        + ParseDigits[<<code[4]>>]

alphadecToBeats(code) ==
    ((charCodeAt(code[1]) - 65) * 2600) + (ParseDigits[<<code[2]>>] * 260)
        + ((charCodeAt(code[3]) - 65) * 10) + ParseDigits[<<code[4]>>]

\* `${sign}${hours}:${mm}:${ss}` for a difference of delta_ms milliseconds
isoDelta(delta_ms) ==
    (IF delta_ms.neg THEN <<"-">> ELSE <<>>)
        \o NumToString[BigToNat[BigDiv(delta_ms.abs, Big[3600000])]] \o <<":">>
        \o Pad(BigToNat[BigMod(delta_ms.abs, Big[3600000])] \div 60000, 2) \o <<":">>
        \o Pad(BigToNat[BigMod(delta_ms.abs, Big[60000])] \div 1000, 2)

\* periods, arcs, bars and beats of a non-negative beat count
beatUnits(remaining) ==
    [periods |-> remaining \div 2600, arcs |-> (remaining % 2600) \div 260,
     bars |-> ((remaining % 2600) % 260) \div 10, beats |-> ((remaining % 2600) % 260) % 10]

\* `${adec_sign}${pp}:${aa}:${bb}:${tt}`
alphadecDelta(delta_beats, u) ==
    (IF delta_beats < 0 THEN <<"-">> ELSE <<>>)
        \o Pad(u.periods, 2) \o <<":">> \o Pad(u.arcs, 2) \o <<":">>
        \o Pad(u.bars, 2) \o <<":">> \o Pad(u.beats, 2)

breakdownText(delta_beats, u) ==
    (IF delta_beats < 0 THEN <<"Negative difference of ">> ELSE <<>>)
        \o <<NumToString[u.periods], " period(s), ", NumToString[u.arcs], " arc(s), ",
             NumToString[u.bars], " bar(s), ", NumToString[u.beats], " beat(s)">>

\* lines 1158-1208
clock_delta_alphadec_result(args, date_start, date_end) ==
    LET delta_beats == alphadecToBeats(args.alphadec_end) - alphadecToBeats(args.alphadec_start)
        u == beatUnits(IF delta_beats < 0 THEN -delta_beats ELSE delta_beats)
    IN  TextResult(JSONstringify(
            [iso_time_difference |-> isoDelta(NumMinus(getTime(date_end), getTime(date_start))),
             alphadec_unit_delta |-> alphadecDelta(delta_beats, u),
             breakdown |-> breakdownText(delta_beats, u)]))

\* lines 1151-1208, given what the first decode returned or threw
clock_delta_alphadec_decoded(i, this, args, full_start, full_end, date_start) ==
    IF date_start.threw
    THEN Thrown(date_start, <<CodecCall("decode", full_start)>>)
    ELSE Only({ IF date_end.threw
                THEN Thrown(date_end, <<CodecCall("decode", full_start),
                                        CodecCall("decode", full_end)>>)
                ELSE IF ~IsValidDate(date_start.value) \/ ~IsValidDate(date_end.value)
                THEN Thrown(Error(<<"Failed to decode one or both AlphaDec codes for the current year.">>),
                            <<CodecCall("decode", full_start), CodecCall("decode", full_end)>>)
                ELSE Returned(clock_delta_alphadec_result(args, date_start.value, date_end.value),
                              <<CodecCall("decode", full_start), CodecCall("decode", full_end)>>) :
                date_end \in { Decode(i, this, full_end) } })

\* the body of the try block
clock_delta_alphadec_body(i, this, args, env) ==
    Only({ clock_delta_alphadec_decoded(i, this, args, full[1], full[2],
                                        Decode(i, this, full[1])) :
             full \in { << fullCanonical(getUTCFullYear(env.now), args.alphadec_start),
                           fullCanonical(getUTCFullYear(env.now), args.alphadec_end) >> } })

clock_delta_alphadec_handler(i, this, args, env) ==
    tryCatchMessage("Error in clock_delta_alphadec: ",
                    clock_delta_alphadec_body(i, this, args, env))

(***************************************************************************)
(* clock_convert_unixtime                                                  *)
(***************************************************************************)
clock_convert_unixtime_schema(args) ==
    args.direction \in {"utc_to_unixtime", "unixtime_to_utc"}

\* /^\d+$/.test(value)
testDigits(value) == Len(value) >= 1 /\ \A k \in 1..Len(value) : IsDigit(value[k])

\* limbs of a string of decimal digits, three digits a limb
ParseLimbs[s \in Seq(STRING)] ==
    IF Len(s) <= 3 THEN <<ParseDigits[s]>>
    ELSE <<ParseDigits[SubSeq(s, Len(s) - 2, Len(s))]>> \o ParseLimbs[SubSeq(s, 1, Len(s) - 3)]

\* parseInt(value, 10) for a string of decimal digits
parseInt10(value) == NumOfBig(FALSE, BigNorm[ParseLimbs[value]])

\* lines 937-950, given inputDate = new Date(value)
utc_to_unixtime_result(value, inputDate) ==
    IF ~IsValidDate(inputDate)
    THEN Thrown(Error(<<"Invalid date from UTC ISO string: ", value>>), <<>>)
    ELSE Returned(TextResult(JSONstringify(
                      [source_utc_iso |-> value,
                       unix_timestamp |-> NumFloorDiv(getTime(inputDate), 1000)])), <<>>)

\* lines 957-973, given unixSeconds = parseInt(value, 10)
unixtime_to_utc_result(value, unixSeconds, convertedDate) ==
    IF unixSeconds.neg
    THEN Thrown(Error(<<"Invalid Unix timestamp: ", value, ". Must be a non-negative integer.">>), <<>>)
    ELSE IF ~IsValidDate(convertedDate)
    THEN Thrown(Error(<<"Invalid Unix timestamp or unable to convert: ", value>>), <<>>)
    ELSE Returned(TextResult(JSONstringify(
                      [source_unix_timestamp |-> unixSeconds,
                       utc_iso |-> toISOString(convertedDate).value])), <<>>)

\* the body of the try block
clock_convert_unixtime_body(args, env) ==
    IF args.direction = "utc_to_unixtime"
    THEN IF ~Test(IsoUtcSecondsOptPatterns, args.value)
         THEN Thrown(Error(<<"Invalid UTC ISO format for \"value\": ", args.value,
                             ". Expected YYYY-MM-DDTHH:MM(:SS)Z.">>), <<>>)
         ELSE utc_to_unixtime_result(args.value, DateParse(args.value, env.lenient))
    ELSE IF ~testDigits(args.value)
         THEN Thrown(Error(<<"Invalid Unix timestamp format for \"value\": ", args.value,
                             ". Expected positive integer (seconds since epoch).">>), <<>>)
         ELSE unixtime_to_utc_result(args.value, parseInt10(args.value),
                                     NewDateOfMs(NumTimes1000(parseInt10(args.value))))

clock_convert_unixtime_handler(args, env) ==
    tryCatch("Error in clock_convert_unixtime: ", clock_convert_unixtime_body(args, env))

(***************************************************************************)
(* clock_day_info                                                          *)
(***************************************************************************)
\* zod: date is optional and matches /^\d{4}-\d{2}-\d{2}$/
clock_day_info_schema(args) ==
    IF args.date = Undefined THEN TRUE ELSE Test(DateOnlyPatterns, args.date.value)

\* `${y}-${m}-${da}` with m and da padded to two digits
toUTCDateStr(date) ==
    NumToString[getUTCFullYear(date)] \o <<"-">> \o Pad(getUTCMonth(date) + 1, 2)
        \o <<"-">> \o Pad(getUTCDate(date), 2)

WeekdayNames ==
    <<"Sunday", "Monday", "Tuesday", "Wednesday", "Thursday", "Friday", "Saturday">>

\* new Intl.DateTimeFormat("en-US", {weekday: "long", timeZone: "UTC"}).format(dateObj)
weekdayNameOf(dateObj) ==
    IF ~IsValidDate(dateObj)
    THEN Throw("RangeError", <<"Invalid time value">>)
    ELSE [threw |-> FALSE, value |-> WeekdayNames[getUTCDay(dateObj) + 1]]

\* lines 642-648: day number of the Thursday of the week of dateObj, of the
\* Thursday of the week of 4 January of that Thursday's year, and the week
isoWeekOf(dateObj) ==
    LET tempDay == dateObj.day - ((getUTCDay(dateObj) + 6) % 7) + 3
        jan4 == DateUTCDay(getUTCFullYear([day |-> tempDay, ms |-> dateObj.ms]), 0, 4)
        yearStartDay == jan4 - ((((jan4 + 4) % 7) + 6) % 7) + 3
    IN  ((tempDay - yearStartDay) \div 7) + 1

\* Math.round((dayOfYear / daysInYear) * 100)
yearProgressOf(dayOfYear, daysInYear) ==
    ((200 * dayOfYear) + daysInYear) \div (2 * daysInYear)

\* lines 624-669, for a valid dateObj
clock_day_info_result(resolvedDate, dateObj) ==
    LET year == getUTCFullYear(dateObj)
        daysInYear == IF IsLeapYear(year) THEN 366 ELSE 365
        dayOfYear == (dateObj.day - DateUTC(year)) + 1
    IN  TextResult(JSONstringify(
            [date |-> resolvedDate,
             weekday |-> weekdayNameOf(dateObj).value,
             days_in_month |->
                 getUTCDate([day |-> DateUTCDay(year, getUTCMonth(dateObj) + 1, 0), ms |-> 0]),
             day_of_year |-> dayOfYear,
             days_in_year |-> daysInYear,
             year_progress_pct |-> yearProgressOf(dayOfYear, daysInYear),
             iso_week |-> isoWeekOf(dateObj)]))

\* the body of the try block, given dateObj
clock_day_info_dated(resolvedDate, dateObj) ==
    IF weekdayNameOf(dateObj).threw
    THEN Thrown(weekdayNameOf(dateObj), <<>>)
    ELSE Returned(clock_day_info_result(resolvedDate, dateObj), <<>>)

clock_day_info_body(args, env) ==
    Only({ clock_day_info_dated(resolvedDate,
               DateParse(resolvedDate \o <<"T", "0", "0", ":", "0", "0", ":", "0", "0",
                                           ".", "0", "0", "0", "Z">>, env.lenient)) :
             resolvedDate \in { IF args.date = Undefined THEN toUTCDateStr(env.now)
                                ELSE args.date.value } })

clock_day_info_handler(args, env) ==
    tryCatchMessage("Error in clock_day_info: ", clock_day_info_body(args, env))

(***************************************************************************)
(* clock_delta_utc                                                         *)
(***************************************************************************)
\* an optional string that is left out or empty is falsy
Falsy(s) == s = Undefined \/ s.value = <<>>

\* now.toISOString().slice(0, 19) + 'Z'
nowStrOf(now) == SubSeq(toISOString(now).value, 1, 19) \o <<"Z">>

ValidDates == [day : Int, ms : 0..(msPerDay - 1)]

\* new Date(cursor) with setUTCFullYear(getUTCFullYear() + 1)
nextYearOf(cursor) ==
    MakeDate(MakeDay(getUTCFullYear(cursor) + 1, getUTCMonth(cursor), getUTCDate(cursor)),
             cursor.ms)

\* the while loop of lines 1056-1066: whole years from cursor up to laterDate
wholeYears[cursor \in ValidDates, laterDate \in ValidDates, years \in Nat] ==
    IF IsValidDate(nextYearOf(cursor)) /\ DateCmp(nextYearOf(cursor), laterDate) <= 0
    THEN wholeYears[nextYearOf(cursor), laterDate, years + 1]
    ELSE [years |-> years, cursor |-> cursor]

\* `${n} ${unit}${n !== 1 ? "s" : ""}`
countOf(n, unit) == <<NumToString[n], unit, IF n # 1 THEN "s" ELSE "">>

\* lines 1068-1091: the breakdown and the readable parts
clock_delta_utc_breakdown(loop, laterDate) ==
    LET borrow == IF laterDate.ms < loop.cursor.ms THEN 1 ELSE 0
        days == (laterDate.day - loop.cursor.day) - borrow
        remainingMs == (laterDate.ms - loop.cursor.ms) + (borrow * msPerDay)
        hours == remainingMs \div 3600000
        minutes == (remainingMs % 3600000) \div 60000
        seconds == (remainingMs % 60000) \div 1000
        most == (IF loop.years > 0 THEN <<countOf(loop.years, " year")>> ELSE <<>>)
                  \o (IF days > 0 THEN <<countOf(days, " day")>> ELSE <<>>)
                  \o (IF hours > 0 THEN <<countOf(hours, " hour")>> ELSE <<>>)
                  \o (IF minutes > 0 THEN <<countOf(minutes, " minute")>> ELSE <<>>)
    IN  [breakdown |-> [years |-> loop.years, days |-> days, hours |-> hours,
                        minutes |-> minutes, seconds |-> seconds],
         parts |-> IF seconds > 0 \/ most = <<>>
                   THEN most \o <<countOf(seconds, " second")>> ELSE most]

\* lines 1045-1114 with the breakdown taken from startDate to endDate whatever
\* their order
clock_delta_utc_resultUnordered(resolvedStart, resolvedEnd, startDate, endDate) ==
    LET totalMs == NumMinus(getTime(endDate), getTime(startDate))
        b == clock_delta_utc_breakdown(wholeYears[startDate, endDate, 0], endDate)
    IN  TextResult(JSONstringify(
            [start_utc_iso |-> resolvedStart,
             end_utc_iso |-> resolvedEnd,
             total_seconds |-> NumFloorDiv(totalMs, 1000),
             breakdown |-> b.breakdown,
             readable |-> [prefix |-> IF totalMs.neg THEN "Negative difference of " ELSE "",
                           parts |-> b.parts]]))

\* lines 1045-1114, for valid dates
clock_delta_utc_result(resolvedStart, resolvedEnd, startDate, endDate) ==
    LET totalMs == NumMinus(getTime(endDate), getTime(startDate))
        earlierDate == IF totalMs.neg THEN endDate ELSE startDate
        laterDate == IF totalMs.neg THEN startDate ELSE endDate
        b == clock_delta_utc_breakdown(wholeYears[earlierDate, laterDate, 0], laterDate)
    IN  TextResult(JSONstringify(
            [start_utc_iso |-> resolvedStart,
             end_utc_iso |-> resolvedEnd,
             total_seconds |-> NumFloorDiv(totalMs, 1000),
             breakdown |-> b.breakdown,
             readable |-> [prefix |-> IF totalMs.neg THEN "Negative difference of " ELSE "",
                           parts |-> b.parts]]))

\* lines 1035-1114, given the two parsed dates
clock_delta_utc_dated(resolvedStart, resolvedEnd, startDate, endDate) ==
    IF ~IsValidDate(startDate)
    THEN Thrown(Error(<<"Invalid start date: ", resolvedStart>>), <<>>)
    ELSE IF ~IsValidDate(endDate)
    THEN Thrown(Error(<<"Invalid end date: ", resolvedEnd>>), <<>>)
    ELSE Returned(clock_delta_utc_result(resolvedStart, resolvedEnd, startDate, endDate), <<>>)

\* lines 1026-1114, given the resolved strings
clock_delta_utc_resolved(resolvedStart, resolvedEnd, env) ==
    IF ~Test(ISO_UTC_SECONDS_RE, resolvedStart)
    THEN Thrown(Error(<<"Invalid start UTC ISO format: ", resolvedStart, ".">>), <<>>)
    ELSE IF ~Test(ISO_UTC_SECONDS_RE, resolvedEnd)
    THEN Thrown(Error(<<"Invalid end UTC ISO format: ", resolvedEnd, ".">>), <<>>)
    ELSE clock_delta_utc_dated(resolvedStart, resolvedEnd,
                               DateParse(resolvedStart, env.lenient),
                               DateParse(resolvedEnd, env.lenient))

\* the body of the try block
clock_delta_utc_body(args, env) ==
    IF Falsy(args.start) /\ Falsy(args.end)
    THEN Thrown(Error(<<"At least one of 'start' or 'end' must be provided.">>), <<>>)
    ELSE clock_delta_utc_resolved(
             IF Falsy(args.start) THEN nowStrOf(env.now) ELSE args.start.value,
             IF Falsy(args.end) THEN nowStrOf(env.now) ELSE args.end.value, env)

clock_delta_utc_handler(args, env) ==
    tryCatch("Error in clock_delta_utc: ", clock_delta_utc_body(args, env))

(***************************************************************************)
(* clock_convert                                                           *)
(***************************************************************************)
\* zod: target_zones holds 1 to 15 strings
clock_convert_schema(args) ==
    Len(args.target_zones) >= 1 /\ Len(args.target_zones) <= 15

\* the entry of one target zone
clock_convert_entry(targetZone, srcDateUTC) ==
    IF targetZone = "UTC"
    THEN [timezone |-> "UTC", iso |-> toISOString(srcDateUTC).value]
    ELSE [timezone |-> targetZone,
          time12 |-> IntlFormat("time12", targetZone, srcDateUTC).value,
          time24 |-> IntlFormat("time24", targetZone, srcDateUTC).value,
          dayName |-> IntlFormat("weekday", targetZone, srcDateUTC).value,
          date |-> IntlFormat("date", targetZone, srcDateUTC).value]

\* lines 754-820, given srcDateUTC
clock_convert_targets(args, srcDateUTC) ==
    LET bad == { k \in 1..Len(args.target_zones) :
                    args.target_zones[k] # "UTC" /\ ~isValidIANATimeZone(args.target_zones[k]) }
    IN  IF ~IsValidDate(srcDateUTC)
        THEN Thrown(Error(<<"Could not determine a valid UTC date from source: ",
                            args.source_zone, ", iso: ", args.iso>>), <<>>)
        ELSE IF bad # {}
        THEN Thrown(Error(<<"Invalid target zone: \"",
                            args.target_zones[CHOOSE k \in bad : \A j \in bad : k <= j],
                            "\". Must be \"UTC\" or a valid IANA zone name.">>), <<>>)
        ELSE Returned(TextResult(JSONstringify(
                          [k \in 1..Len(args.target_zones) |->
                              clock_convert_entry(args.target_zones[k], srcDateUTC)])), <<>>)

\* lines 741-752, given term1Ms and the wall-clock string of the source zone
clock_convert_shifted(args, term1, localTimeInSourceZoneStr, term2) ==
    IF ~IsValidDate(term2)
    THEN Thrown(Error(<<"Failed to parse localized time string for zone ", args.source_zone,
                        ": ", localTimeInSourceZoneStr>>), <<>>)
    ELSE clock_convert_targets(args,
             NewDateOfMs(NumMinus(NumPlus(getTime(term1), getTime(term1)), getTime(term2))))

\* lines 726-752, given term1Ms = Date.parse(isoTimestamp + "Z") as a Date
clock_convert_local(args, term1, env) ==
    IF ~IsValidDate(term1)
    THEN Thrown(Error(<<"Invalid ISO date/time string for parsing: ",
                        replaceBlankByT(args.iso)>>), <<>>)
    ELSE Only({ clock_convert_shifted(args, term1, str, DateParse(str \o <<"Z">>, env.lenient)) :
                  str \in { replaceBlankByT(toLocaleStringSv(args.source_zone, term1)) } })

\* the body of the try block
clock_convert_body(args, env) ==
    IF args.source_zone # "UTC" /\ ~isValidIANATimeZone(args.source_zone)
    THEN Thrown(Error(<<"Invalid source_zone: \"", args.source_zone,
                        "\". Must be \"UTC\" or a valid IANA zone name.">>), <<>>)
    ELSE IF args.source_zone = "UTC"
    THEN IF ~Test(IsoUtcPatterns, args.iso)
         THEN Thrown(Error(<<"Invalid ISO format for UTC source: \"", args.iso,
                             "\". Expected YYYY-MM-DDTHH:MM(:SS)(.mmm)Z.">>), <<>>)
         ELSE clock_convert_targets(args, DateParse(args.iso, env.lenient))
    ELSE IF ~Test(IsoLocalPatterns, args.iso)
         THEN Thrown(Error(<<"Invalid ISO-8601 format for IANA source \"", args.source_zone,
                             "\": \"", args.iso,
                             "\". Expected YYYY-MM-DDTHH:MM(:SS)(.mmm) without offset.">>), <<>>)
         ELSE clock_convert_local(args,
                  DateParse(replaceBlankByT(args.iso) \o <<"Z">>, env.lenient), env)

clock_convert_handler(args, env) ==
    tryCatch("Error in clock_convert: ", clock_convert_body(args, env))

(***************************************************************************)
(* The server: it receives tool calls one after the other; the SDK checks   *)
(* the arguments against the tool's zod schema and then runs the handler.   *)
(***************************************************************************)
IsoText(year, month, day, hour, min, tail) ==
    Pad(year, 4) \o <<"-">> \o Pad(month, 2) \o <<"-">> \o Pad(day, 2) \o <<"T">>
        \o Pad(hour, 2) \o <<":">> \o Pad(min, 2) \o tail

\* a UTC ISO string with seconds and milliseconds
GoodIso == IsoText(2025, 6, 9, 16, 30, <<":", "0", "0", ".", "1", "2", "3", "Z">>)

IsoTails ==
    { <<"Z">>, <<":", "0", "7", "Z">>, <<":", "0", "7", ".", "5", "Z">>,
      <<":", "5", "9", ".", "9", "9", "9", "Z">>, <<".", "5", "Z">>,
      <<>>, <<":", "0", "7">>, <<":", "0", "7", ".", "1", "2", "3", "4", "Z">>,
      <<":", "0", "7", "+", "0", "2", ":", "0", "0">>, <<":", "0", "7", "z">>,
      <<":", "6", "1", "Z">> }

\* year, month, day, hour, minute: legal ones, a leap day, the end of a day,
\* a year below 100, and illegal element values
IsoMoments ==
    { <<2025, 6, 9, 16, 30>>, <<2024, 2, 29, 23, 59>>, <<2025, 12, 31, 24, 0>>,
      <<50, 6, 9, 16, 30>>, <<2025, 2, 30, 0, 0>>, <<2025, 13, 1, 0, 0>>,
      <<2025, 6, 0, 0, 0>>, <<2025, 6, 9, 25, 0>>, <<2025, 6, 9, 16, 60>> }

IsoInputs ==
    { IsoText(m[1], m[2], m[3], m[4], m[5], tail) : m \in IsoMoments, tail \in IsoTails }
        \cup Variants(GoodIso)
        \cup { <<>>, SubSeq(GoodIso, 1, 10),
               [GoodIso EXCEPT ![11] = " "] }

NowDates ==
    { DateParse(GoodIso, FALSE),
      DateParse(IsoText(2024, 12, 31, 23, 59, <<":", "5", "9", ".", "9", "9", "9", "Z">>), FALSE) }

\* the host: the current time and how its Date parser treats strings outside
\* the ECMAScript format
Envs == [now : NowDates, lenient : BOOLEAN]

\* the transport hands the server one request at a time: the request is
\* recorded with what its handler returned, the codec calls the handler made
\* and the error raised in its try block, if any
ServeVersion(version, tool, args, env, r) ==
    /\ pc = "tool"
    /\ request' = [version |-> version, tool |-> tool, args |-> args, env |-> env]
    /\ response' = r.response
    /\ codecCalls' = r.calls
    /\ raised' = r.raised
    /\ UNCHANGED <<alphadec, impl, pc, d, d2, canon, enc, enc2, dec, concVars>>

\* a request to the server version 2025_S1N6 (part_003)
Serve(tool, args, env, r) == ServeVersion("2025_S1N6", tool, args, env, r)

InitTool ==
    /\ alphadec = AlphadecObject
    /\ impl \in Impls
    /\ pc = "tool"
    /\ d = NoDate
    /\ d2 = NoDate
    /\ canon = <<>>
    /\ enc = Pending
    /\ enc2 = Pending
    /\ dec = Pending
    /\ Idle

ZoneLists ==
    { <<>>, <<"UTC">>, <<"Alphadec">>, <<"Asia/Tokyo", "America/New_York">>,
      <<"UTC", "Alphadec", "UTC", "Asia/Kolkata">>, <<"Alphadec", "Alphadec">>,
      <<"Mars/Base">>, <<"Asia/Tokyo", "X", "Mars/Base">>,
      [k \in 1..16 |-> "UTC"] }

\* 9 * 10^15, the largest offsets a safe integer holds, and everyday offsets
OffsetSeconds ==
    { Num(0), Num(-3600), Num(86400),
      NumOfBig(FALSE, <<0, 0, 0, 0, 0, 9>>), NumOfBig(TRUE, <<0, 0, 0, 0, 0, 9>>) }

ClockGetArgs ==
    [timezones : {Undefined} \cup { Some(z) : z \in ZoneLists },
     offsetSeconds : {Undefined} \cup { Some(n) : n \in OffsetSeconds },
     adec_canonical_only : {Undefined, Some("true")}]

clock_get ==
    /\ request = Pending
    /\ \E args \in ClockGetArgs, env \in Envs :
           /\ clock_get_schema(args)
           /\ \E r \in { clock_get_handler(impl, alphadec, args, env) } :
                  Serve("clock_get", args, env, r)

\* clock_get of the server version 2025_Q9Z0
clock_get_Q9Z0 ==
    /\ request = Pending
    /\ \E args \in ClockGetArgs, env \in Envs :
           /\ clock_get_schema(args)
           /\ \E r \in { clock_get_handlerQ9Z0(impl, alphadec, args, env) } :
                  ServeVersion("2025_Q9Z0", "clock_get", args, env, r)

ConvertAlphadecArgs ==
    [direction : {"utc_to_alphadec", "alphadec_to_utc"},
     value : IsoInputs \cup DecodeInputs
                 \cup { Pad(50, 4) \o <<"_", "A", "0", "A", "0", "_", "0", "0", "0", "0", "0", "0">> }]

clock_convert_alphadec ==
    /\ request = Pending
    /\ \E args \in ConvertAlphadecArgs, env \in Envs :
           /\ clock_convert_alphadec_schema(args)
           /\ \E r \in { clock_convert_alphadec_handler(impl, alphadec, args, env) } :
                  Serve("clock_convert_alphadec", args, env, r)

Codes ==
    { <<"A", "0", "A", "0">>, <<"A", "0", "A", "1">>, <<"A", "2", "B", "3">>,
      <<"C", "1", "Y", "9">>,
      <<"L", "3", "T", "5">>, <<"Z", "9", "Z", "9">>, <<"a", "2", "B", "3">> }

DeltaAlphadecArgs == [alphadec_start : Codes, alphadec_end : Codes]

clock_delta_alphadec ==
    /\ request = Pending
    /\ \E args \in DeltaAlphadecArgs, env \in Envs :
           /\ clock_delta_alphadec_schema(args)
           /\ \E r \in { clock_delta_alphadec_handler(impl, alphadec, args, env) } :
                  Serve("clock_delta_alphadec", args, env, r)

UnixInputs ==
    { <<"0">>, <<"1", "7", "4", "9", "9", "8", "8", "8", "0", "0">>,
      <<"8", "6", "4", "0", "0", "0", "0", "0", "0", "0", "0", "0", "0">>,
      <<"8", "6", "4", "0", "0", "0", "0", "0", "0", "0", "0", "0", "1">>,
      <<"0", "0", "7">>, <<"-", "5">>, <<"1", "2", "a">>, <<>>, <<"1", ".", "5">> }

ConvertUnixtimeArgs ==
    [direction : {"utc_to_unixtime", "unixtime_to_utc"}, value : IsoInputs \cup UnixInputs]

clock_convert_unixtime ==
    /\ request = Pending
    /\ \E args \in ConvertUnixtimeArgs, env \in Envs :
           /\ clock_convert_unixtime_schema(args)
           /\ \E r \in { clock_convert_unixtime_handler(args, env) } :
                  Serve("clock_convert_unixtime", args, env, r)

DateInputs ==
    { SubSeq(IsoText(m[1], m[2], m[3], 0, 0, <<>>), 1, 10) :
        m \in { <<2025, 9, 9>>, <<2024, 2, 29>>, <<2024, 12, 30>>, <<2021, 1, 3>>,
                <<2026, 1, 1>>, <<2020, 12, 31>>, <<2025, 2, 30>>, <<2025, 13, 45>>,
                <<50, 1, 1>> } }
        \cup { SubSeq(GoodIso, 1, 9), GoodIso }

DayInfoArgs == [date : {Undefined} \cup { Some(s) : s \in DateInputs }]

clock_day_info ==
    /\ request = Pending
    /\ \E args \in DayInfoArgs, env \in Envs :
           /\ clock_day_info_schema(args)
           /\ \E r \in { clock_day_info_handler(args, env) } :
                  Serve("clock_day_info", args, env, r)

DeltaUtcInputs ==
    { IsoText(m[1], m[2], m[3], m[4], m[5], tail) :
        m \in { <<2022, 1, 15, 10, 30>>, <<2024, 2, 29, 23, 59>>, <<2025, 8, 31, 14, 45>>,
                <<2025, 2, 30, 0, 0>>, <<2025, 6, 9, 25, 0>>, <<2028, 2, 29, 23, 59>> },
        tail \in { <<":", "0", "0", "Z">>, <<":", "3", "0", "Z">>, <<"Z">>,
                   <<":", "0", "0", ".", "0", "0", "0", "Z">> } }

DeltaUtcArgs ==
    [start : {Undefined, Some(<<>>)} \cup { Some(s) : s \in DeltaUtcInputs },
     end : {Undefined, Some(<<>>)} \cup { Some(s) : s \in DeltaUtcInputs }]

clock_delta_utc ==
    /\ request = Pending
    /\ \E args \in DeltaUtcArgs, env \in Envs :
           \E r \in { clock_delta_utc_handler(args, env) } :
               Serve("clock_delta_utc", args, env, r)

ConvertIsoInputs ==
    { IsoText(m[1], m[2], m[3], m[4], m[5], tail) :
        m \in { <<2025, 10, 28, 7, 30>>, <<2025, 3, 9, 2, 30>>, <<2025, 3, 9, 3, 30>>,
                <<2025, 11, 2, 1, 30>>, <<2025, 2, 30, 0, 0>>, <<2025, 13, 1, 0, 0>> },
        tail \in { <<>>, <<":", "0", "0">>, <<":", "0", "0", ".", "1", "2", "3">>,
                   <<":", "0", "0", "Z">>, <<"Z">> } }
        \cup { [IsoText(2025, 10, 28, 7, 30, <<":", "0", "0">>) EXCEPT ![11] = " "] }

ConvertArgs ==
    [source_zone : {"UTC", "Asia/Tokyo", "America/New_York", "Mars/Base", "X", ""},
     iso : ConvertIsoInputs,
     target_zones : { <<"UTC">>, <<"UTC", "Asia/Dubai">>, <<"Asia/Kolkata", "America/New_York">>,
                      <<>> }]

clock_convert ==
    /\ request = Pending
    /\ \E args \in ConvertArgs, env \in Envs :
           /\ clock_convert_schema(args)
           /\ \E r \in { clock_convert_handler(args, env) } :
                  Serve("clock_convert", args, env, r)

\* the transport sends the handler's result to the client; the server then
\* waits for the next request
send ==
    /\ pc = "tool"
    /\ request # Pending
    /\ request' = Pending
    /\ response' = Pending
    /\ codecCalls' = <<>>
    /\ raised' = Pending
    /\ UNCHANGED <<alphadec, impl, pc, d, d2, canon, enc, enc2, dec, concVars>>

NextTool ==
    \/ clock_get
    \/ clock_get_Q9Z0
    \/ clock_day_info
    \/ clock_convert
    \/ clock_convert_alphadec
    \/ clock_convert_unixtime
    \/ clock_delta_utc
    \/ clock_delta_alphadec
    \/ send

SpecTool == InitTool /\ [][NextTool]_vars

(***************************************************************************)
(* Properties.                                                             *)
(***************************************************************************)
\* the scenario encoded d and decoded the canonical string it got
RoundTripDone == (pc = "done" \/ pc = "again") /\ d # NoDate

\* encode(d) has been called
Encoded == d # NoDate /\ pc # "encode" /\ pc # "pair"

\* a string was given to decode and decode has returned or thrown
StringDecoded == pc = "done" /\ d = NoDate

\* the shape YYYY_LdLd_MMMMMM
HasCanonicalShape(s) ==
    /\ Len(s) = 16
    /\ \A i \in {1, 2, 3, 4, 7, 9, 11, 12, 13, 14, 15, 16} :
           s[i] \in {"0", "1", "2", "3", "4", "5", "6", "7", "8", "9"}
    /\ \A i \in {6, 8} :
           s[i] \in {"A", "B", "C", "D", "E", "F", "G", "H", "I", "J", "K", "L", "M",
                     "N", "O", "P", "Q", "R", "S", "T", "U", "V", "W", "X", "Y", "Z"}
    /\ s[5] = "_"
    /\ s[10] = "_"

\* beat index named by the fields of an encode result
BeatIndexOf(e) == (e.period * 2600) + (e.arc * 260) + (e.bar * 10) + e.beat

\* milliseconds from the start of its UTC year to date
OffsetInYear(date) == MsSinceYearStart(date, getUTCFullYear(date))

\* C1: for every instant of a year 1000-9999, decode(encode(x).canonical)
\* differs from x by at most 1 ms (in either codec file).
C1_RoundTripWithinOneMs ==
    RoundTripDone =>
        /\ ~enc.threw
        /\ ~dec.threw
        /\ BigLe(DateAbsDiff(dec.value, d), Big[1])

C1_Witness ==
    /\ RoundTripDone
    /\ ~enc.threw
    /\ ~dec.threw
    /\ DateAbsDiff(dec.value, d) = Big[1]

\* C3: for every instant of a year 1000-9999, encode(x).canonical has the
\* fixed shape YYYY_LdLd_MMMMMM, with the year of x as YYYY.
C3_CanonicalShape ==
    Encoded =>
        /\ ~enc.threw
        /\ HasCanonicalShape(enc.canonical)
        /\ SubSeq(enc.canonical, 1, 4) = NumToString[getUTCFullYear(d)]

C3_Witness ==
    /\ Encoded
    /\ ~enc.threw
    /\ enc.msOffsetInBeat > 99999
    /\ enc.period = 25

C5_MalformedRejected ==
    (StringDecoded /\ ~HasCanonicalShape(canon)) =>
        /\ dec.threw
        /\ dec.name = "Error"
        /\ dec.message[Len(dec.message)] = canon
        /\ "value" \notin DOMAIN dec

C5_Witness ==
    /\ StringDecoded
    /\ canon = Str16(2025, <<"1", "9", "T", "5">>, <<"0", "0", "0", "0", "0", "0">>)
    /\ dec.threw
    /\ dec.message[Len(dec.message)] = canon

\* C6: encoding 1 January 00:00:00.000 UTC of any year gives period 0, arc 0,
\* bar 0, beat 0, offset 0, unit block A0A0 and millisecond suffix 000000.
C6_YearStartIsA0A0 ==
    (Encoded /\ d.ms = 0 /\ \E y \in Years : d.day = DayFromYear(y)) =>
        /\ ~enc.threw
        /\ enc.period = 0 /\ enc.arc = 0 /\ enc.bar = 0 /\ enc.beat = 0
        /\ enc.msOffsetInBeat = 0
        /\ SubSeq(enc.canonical, 6, 9) = <<"A", "0", "A", "0">>
        /\ SubSeq(enc.canonical, 11, 16) = <<"0", "0", "0", "0", "0", "0">>

C6_Witness ==
    /\ Encoded
    /\ d = [day |-> DayFromYear(2024), ms |-> 0]
    /\ ~enc.threw
    /\ SubSeq(enc.canonical, 6, 9) = <<"A", "0", "A", "0">>

\* both instants of a pair have been encoded
PairDone == pc = "done" /\ d2 # NoDate

SameYearPair == getUTCFullYear(d) = getUTCFullYear(d2)

\* C2: for two instants x1 < x2 of one UTC year, encode(x1).canonical is
\* strictly less than encode(x2).canonical as strings.
C2_CanonicalSortsChronologically ==
    (PairDone /\ SameYearPair /\ DateCmp(d, d2) < 0) =>
        /\ ~enc.threw
        /\ ~enc2.threw
        /\ StrLess[enc.canonical, enc2.canonical]

C2_Witness ==
    /\ PairDone
    /\ SameYearPair
    /\ DateCmp(d, d2) < 0
    /\ ~enc.threw
    /\ ~enc2.threw
    /\ enc.msOffsetInBeat = 9
    /\ enc2.msOffsetInBeat = 10
    /\ StrLess[enc.canonical, enc2.canonical]

\* the pair is one offset from the start of a common year and of a leap year
LeapPair == PairDone /\ ~SameYearPair /\ ~enc.threw /\ ~enc2.threw

\* C7 as stated: the same offset from the start of a common year and of a
\* leap year always maps to different beat indices.
C7_LeapAlwaysDiffers ==
    LeapPair => BeatIndexOf(enc) # BeatIndexOf(enc2)

\* C7, amended: the leap-year beat index is never the larger one, and the two
\* differ (and so do the unit blocks) whenever the common-year beat index is
\* at least 365.
C7_LeapDiffersFromBeat365 ==
    LeapPair =>
        /\ BeatIndexOf(enc2) <= BeatIndexOf(enc)
        /\ (BeatIndexOf(enc) >= 365 =>
               /\ BeatIndexOf(enc2) < BeatIndexOf(enc)
               /\ SubSeq(enc.canonical, 6, 9) # SubSeq(enc2.canonical, 6, 9))

C7_Witness ==
    /\ LeapPair
    /\ BeatIndexOf(enc) = 365
    /\ BeatIndexOf(enc2) = 364
    /\ SubSeq(enc.canonical, 6, 9) # SubSeq(enc2.canonical, 6, 9)

\* what the call returns or throws when it runs alone
AloneResult(i, c) ==
    IF c.op = "encode" THEN Encode(i, AlphadecObject, c.arg)
    ELSE Decode(i, AlphadecObject, c.arg.canon)

\* C8: under any interleaving of concurrent encode and decode calls, each call
\* returns (or throws) exactly what it does when run alone on the same input,
\* and the codec's constants are the same after every step of every call.
C8_CallsAreIndependent ==
    pc = "calls" =>
        /\ alphadec = AlphadecObject
        /\ alphadec.SCALER_N = 1000000
        /\ \A k \in DOMAIN calls :
               CallDone(impl, calls[k]) => calls[k].l = AloneResult(impl, calls[k])

C8_Witness ==
    /\ pc = "calls"
    /\ \A k \in DOMAIN calls : CallDone(impl, calls[k]) /\ calls[k].overlapped
    /\ \E k \in DOMAIN calls : calls[k].op = "encode" /\ ~calls[k].l.threw
    /\ \E k \in DOMAIN calls : calls[k].op = "decode" /\ ~calls[k].l.threw

\* a request has been handled and its result not yet sent
Served(tool) == request # Pending /\ request.tool = tool

\* what the logged codec call returns or throws when made on its own
CodecOutcome(call) ==
    IF call.fn = "encode" THEN Encode(impl, alphadec, call.arg)
    ELSE Decode(impl, alphadec, call.arg)

\* the result is { content: [{ type: "text", text }], error: true } with the
\* text 'Error in <tool>: ' followed by the message
IsErrorResponse(message) ==
    /\ DOMAIN response = {"content", "error"}
    /\ response.error = TRUE
    /\ Len(response.content) = 1
    /\ response.content[1].type = "text"
    /\ response.content[1].text = <<"Error in " \o request.tool \o ": ">> \o message

\* C9: every tool handler returns a response for every input; a failure raised
\* inside the handler, an error thrown by alphadec.encode or alphadec.decode
\* included, gives a result with error: true and the text 'Error in <tool>: '
\* followed by the error's message, and no exception leaves the handler.
C9_FailuresBecomeErrorResponses ==
    request # Pending =>
        /\ response # Pending
        /\ "content" \in DOMAIN response
        /\ "rejected" \notin DOMAIN response
        /\ (raised.threw => IsErrorResponse(raised.message))
        /\ \A k \in DOMAIN codecCalls :
               CodecOutcome(codecCalls[k]).threw =>
                   IsErrorResponse(CodecOutcome(codecCalls[k]).message)

C9_Witness ==
    /\ Served("clock_get")
    /\ Len(codecCalls) = 1
    /\ codecCalls[1].fn = "encode"
    /\ CodecOutcome(codecCalls[1]).threw
    /\ raised.threw
    /\ IsErrorResponse(raised.message)

\* yyyy-mm-ddThh:mm, optionally :ss, optionally a fraction of one to three
\* digits, then Z
HasUtcIsoShape(s) ==
    /\ Len(s) >= 17
    /\ s[Len(s)] = "Z"
    /\ \A k \in 1..16 :
           IF k \in {5, 8} THEN s[k] = "-"
           ELSE IF k = 11 THEN s[k] = "T"
           ELSE IF k = 14 THEN s[k] = ":"
           ELSE s[k] \in {"0", "1", "2", "3", "4", "5", "6", "7", "8", "9"}
    /\ LET rest == SubSeq(s, 17, Len(s) - 1)
           seconds == Len(rest) >= 3 /\ rest[1] = ":"
                          /\ \A k \in 2..3 : rest[k] \in {"0", "1", "2", "3", "4", "5", "6", "7", "8", "9"}
           fraction == IF seconds THEN SubSeq(rest, 4, Len(rest)) ELSE rest
       IN  \/ fraction = <<>>
           \/ /\ Len(fraction) \in 2..4
              /\ fraction[1] = "."
              /\ \A k \in 2..Len(fraction) :
                     fraction[k] \in {"0", "1", "2", "3", "4", "5", "6", "7", "8", "9"}

\* the value is one the direction accepts
ConvertibleValue(args, env) ==
    IF args.direction = "alphadec_to_utc"
    THEN HasCanonicalShape(args.value)
    ELSE HasUtcIsoShape(args.value) /\ IsValidDate(DateParse(args.value, env.lenient))

\* C10: clock_convert_alphadec calls alphadec.decode only with a value of the
\* canonical pattern, and alphadec.encode only with the valid instant parsed
\* from a value of the UTC ISO pattern; for every other value it returns an
\* error response and makes no codec call.
C10_CodecCalledOnlyWithValidatedValue ==
    Served("clock_convert_alphadec") =>
        /\ \A k \in DOMAIN codecCalls :
               IF codecCalls[k].fn = "decode"
               THEN /\ request.args.direction = "alphadec_to_utc"
                    /\ codecCalls[k].arg = request.args.value
                    /\ HasCanonicalShape(request.args.value)
               ELSE /\ request.args.direction = "utc_to_alphadec"
                    /\ HasUtcIsoShape(request.args.value)
                    /\ IsValidDate(codecCalls[k].arg)
                    /\ codecCalls[k].arg = DateParse(request.args.value, request.env.lenient)
        /\ (~ConvertibleValue(request.args, request.env) =>
               /\ codecCalls = <<>>
               /\ "error" \in DOMAIN response
               /\ response.error = TRUE)
        /\ (ConvertibleValue(request.args, request.env) => Len(codecCalls) = 1)

C10_Witness ==
    /\ Served("clock_convert_alphadec")
    /\ request.args.direction = "alphadec_to_utc"
    /\ Len(request.args.value) = 17
    /\ HasCanonicalShape(SubSeq(request.args.value, 1, 16))
    /\ codecCalls = <<>>
    /\ "error" \in DOMAIN response
    /\ response.error = TRUE

\* the Date m minutes after date (before it for a negative m)
MinutesLater(date, m) ==
    [day |-> date.day + ((date.ms + (m * 60000)) \div msPerDay),
     ms |-> (date.ms + (m * 60000)) % msPerDay]

\* the wall-clock time the request gives, as the Date with these UTC fields
GivenWallClock == DateParse(request.args.iso \o <<"Z">>, request.env.lenient)

\* some instant shows the wall-clock time wall in zone tz
WallClockExists(tz, wall) ==
    \E offset \in {540, 330, -240, -300} :
        WallClock(tz, MinutesLater(wall, -offset)) = wall

\* date without its milliseconds
WholeSeconds(date) == [date EXCEPT !.ms = date.ms - (date.ms % 1000)]

\* clock_convert answered a request whose source zone is an IANA zone
ConvertedFromZone ==
    /\ Served("clock_convert")
    /\ request.args.source_zone # "UTC"
    /\ "error" \notin DOMAIN response

\* C11: for an IANA source_zone and an accepted wall-clock iso string, with or
\* without seconds and a fraction, the UTC instant clock_convert returns shows
\* exactly the given wall-clock time in source_zone, and the entry of the
\* source zone itself as a target shows the given wall-clock time.
C11_WallClockOfSourceZone ==
    (ConvertedFromZone /\ WallClockExists(request.args.source_zone, GivenWallClock)) =>
        \A k \in DOMAIN response.content[1].text.json :
            LET entry == response.content[1].text.json[k]
            IN  IF entry.timezone = "UTC"
                THEN WallClock(request.args.source_zone, DateParse(entry.iso, FALSE))
                         = GivenWallClock
                ELSE entry.timezone = request.args.source_zone =>
                         WholeSeconds(entry.time24.wall) = WholeSeconds(GivenWallClock)

\* the Date clock_delta_utc takes for an optional timestamp of the request
DeltaDate(timestamp) ==
    DateParse(IF Falsy(timestamp) THEN nowStrOf(request.env.now) ELSE timestamp.value,
              request.env.lenient)

\* clock_delta_utc was called with two valid timestamps, start after end
StartAfterEnd ==
    /\ Served("clock_delta_utc")
    /\ ~(Falsy(request.args.start) /\ Falsy(request.args.end))
    /\ Falsy(request.args.start) \/ Test(ISO_UTC_SECONDS_RE, request.args.start.value)
    /\ Falsy(request.args.end) \/ Test(ISO_UTC_SECONDS_RE, request.args.end.value)
    /\ IsValidDate(DeltaDate(request.args.start))
    /\ IsValidDate(DeltaDate(request.args.end))
    /\ DateCmp(DeltaDate(request.args.start), DeltaDate(request.args.end)) > 0

\* what clock_delta_utc returns for the request with start and end swapped
SwappedDelta ==
    clock_delta_utc_handler([start |-> request.args.end, end |-> request.args.start],
                            request.env).response

CanonicalOnly ==
    /\ Served("clock_get")
    /\ request.args.adec_canonical_only # Undefined
    /\ request.args.adec_canonical_only.value = "true"
    /\ "error" \notin DOMAIN response

\* C13: whenever clock_get is called with adec_canonical_only = 'true', the
\* Alphadec entry of the response has the canonical string and no readable
\* field, and no preamble is emitted, whatever timezones were requested.
C13_CanonicalOnlyHidesReadable ==
    CanonicalOnly =>
        /\ response.content[1].text.preamble = ""
        /\ \A k \in DOMAIN response.content[1].text.json :
               response.content[1].text.json[k].timezone = "Alphadec" =>
                   DOMAIN response.content[1].text.json[k] = {"timezone", "alphadec"}

\* largest millisecond offset inside a beat of year y: the whole milliseconds
\* of a beat that starts just after a whole millisecond
LargestOffsetInBeat(y) == IF IsLeapYear(y) THEN 467786 ELSE 466508

\* C14: over the instants of a year the msOffsetInBeat of encode lies between
\* 0 and 466,508 (common year) or 467,786 (leap year), and both ends are
\* reached: 0 at the start of the year, the largest value at the last
\* millisecond of the first beat (in either codec file).
C14_OffsetRange ==
    Encoded =>
        /\ ~enc.threw
        /\ enc.msOffsetInBeat >= 0
        /\ enc.msOffsetInBeat <= LargestOffsetInBeat(getUTCFullYear(d))
        /\ (OffsetInYear(d) = Big[0] => enc.msOffsetInBeat = 0)
        /\ (OffsetInYear(d) = Big[LargestOffsetInBeat(getUTCFullYear(d))] =>
                enc.msOffsetInBeat = LargestOffsetInBeat(getUTCFullYear(d)))

C14_Witness ==
    /\ Encoded
    /\ ~enc.threw
    /\ IsLeapYear(getUTCFullYear(d))
    /\ enc.msOffsetInBeat = 467786
    /\ BeatIndexOf(enc) > 0

\* the largest offset of a common year is reached
C14_CommonYearLargest ==
    /\ Encoded
    /\ ~enc.threw
    /\ ~IsLeapYear(getUTCFullYear(d))
    /\ enc.msOffsetInBeat = 466508
    /\ impl = "lib"

\* floor(msSinceYearStart * 67600 / yearTotalMs) of the encoded instant
FloorBeatIndex ==
    BigToNat[BigDiv(BigMul(OffsetInYear(d), Big[BEATS_IN_YEAR]),
                    YearTotalMs(getUTCFullYear(d)))]

\* C15: for every instant the fields of encode are the mixed-radix digits of
\* floor(msSinceYearStart * 67600 / yearTotalMs): period = index div 2600,
\* arc = (index mod 2600) div 260, bar = (index mod 260) div 10,
\* beat = index mod 10 (in either codec file).
C15_FieldsAreDigitsOfBeatIndex ==
    Encoded =>
        /\ ~enc.threw
        /\ BeatIndexOf(enc) = FloorBeatIndex
        /\ enc.period = FloorBeatIndex \div 2600
        /\ enc.arc = (FloorBeatIndex % 2600) \div 260
        /\ enc.bar = (FloorBeatIndex % 260) \div 10
        /\ enc.beat = FloorBeatIndex % 10

C15_Witness ==
    /\ Encoded
    /\ ~enc.threw
    /\ impl = "lib"
    /\ enc.period > 0
    /\ enc.arc > 0
    /\ enc.bar > 0
    /\ enc.beat > 0
    /\ enc.msOffsetInBeat = 0

\* yearTotalMs * totalBeatIndex / 67600 of the encoded instant, rounded down
BeatStartFloor ==
    BigDiv(BigMul(YearTotalMs(getUTCFullYear(d)), Big[BeatIndexOf(enc)]),
           Big[BEATS_IN_YEAR])

\* the same quotient rounded up: the first whole millisecond of the beat
BeatStartCeiling ==
    BigDiv(BigAdd(BigMul(YearTotalMs(getUTCFullYear(d)), Big[BeatIndexOf(enc)]),
                  Big[BEATS_IN_YEAR - 1]),
           Big[BEATS_IN_YEAR])

\* 0 <= msOffsetInBeat < yearTotalMs / 67600
OffsetWithinBeatWidth ==
    /\ enc.msOffsetInBeat >= 0
    /\ BigLt(BigMul(Big[enc.msOffsetInBeat], Big[BEATS_IN_YEAR]),
             YearTotalMs(getUTCFullYear(d)))

\* C16 as stated: for every instant msOffsetInBeat equals msSinceYearStart -
\* floor(yearTotalMs * totalBeatIndex / 67600), and it is >= 0 and smaller
\* than the width of a beat.
C16_OffsetFromFloorOfBeatStart ==
    (Encoded /\ ~enc.threw) =>
        /\ BigAdd(BeatStartFloor, Big[enc.msOffsetInBeat]) = OffsetInYear(d)
        /\ OffsetWithinBeatWidth

\* C16, amended: for every instant msOffsetInBeat equals msSinceYearStart -
\* ceil(yearTotalMs * totalBeatIndex / 67600), the whole milliseconds since
\* the start of the beat, and it is >= 0 and smaller than the width of a
\* beat (in either codec file).
C16_OffsetFromCeilingOfBeatStart ==
    Encoded =>
        /\ ~enc.threw
        /\ BigAdd(BeatStartCeiling, Big[enc.msOffsetInBeat]) = OffsetInYear(d)
        /\ OffsetWithinBeatWidth

C16_Witness ==
    /\ Encoded
    /\ ~enc.threw
    /\ impl = "lib"
    /\ BeatStartCeiling # BeatStartFloor
    /\ enc.msOffsetInBeat = 0
    /\ enc.period = 13

\* decode(canon) has returned or thrown
Decoded == (pc = "done" \/ pc = "again") /\ dec # Pending

\* period*2600 + arc*260 + bar*10 + beat, read from a canonical string
BeatIndexIn(s) ==
    ((IndexOf(Letters, s[6]) - 1) * 2600) + ((IndexOf(Digits, s[7]) - 1) * 260)
        + ((IndexOf(Letters, s[8]) - 1) * 10) + (IndexOf(Digits, s[9]) - 1)

\* yearStart(year) + floor(yearTotalMs * k / 67600) + msField, with year, k
\* and msField read from the canonical string s
InstantNamedBy(s) ==
    LET year == ParseDigits[SubSeq(s, 1, 4)]
        beatStartMs ==
            BigDiv(BigMul(YearTotalMs(year), Big[BeatIndexIn(s)]), Big[BEATS_IN_YEAR])
        total == BigAdd(beatStartMs, Big[ParseDigits[SubSeq(s, 11, 16)]])
    IN  DateOfDayMs[DayFromYear(year), BigDivMod[total, Big[msPerDay]]]

\* C17: for every string that matches the canonical pattern decode returns
\* the instant yearStart(year) + floor(yearTotalMs * k / 67600) + msField,
\* k being the beat index written in the string (in either codec file).
C17_DecodeIsBeatStartPlusField ==
    (Decoded /\ HasCanonicalShape(canon)) =>
        /\ ~dec.threw
        /\ dec.value = InstantNamedBy(canon)

\* C18: for every instant of a year 1000-9999, in both codec files, the
\* period and the bar that encode computes are in 0..25 and the arc and the
\* beat in 0..9, and _toBase26 does not throw.
C18_IndicesInRange ==
    Encoded =>
        /\ ~enc.threw
        /\ enc.period \in 0..25
        /\ enc.bar \in 0..25
        /\ enc.arc \in 0..9
        /\ enc.beat \in 0..9
        /\ enc.periodLetter = Letters[enc.period + 1]
        /\ enc.barLetter = Letters[enc.bar + 1]

C18_Witness ==
    /\ Encoded
    /\ ~enc.threw
    /\ impl = "lib"
    /\ IsLeapYear(getUTCFullYear(d))
    /\ enc.period = 25
    /\ enc.arc = 9
    /\ enc.bar = 25
    /\ enc.beat = 9

\* the codec file that is not under test
OtherImpl == IF impl = "beat" THEN "lib" ELSE "beat"

\* what the encode of the other codec file returns for the same Date
OtherEncode == Encode(OtherImpl, alphadec, d)

\* C19: for every instant the encode of src/lib/alphadec.js and the encode
\* of the other codec file return the same canonical string, the same
\* period, arc, bar, beat and msOffsetInBeat, and the same arcStartMsInYear
\* and arcEndMsInYear.
C19_EncodeParity ==
    Encoded =>
        /\ enc.threw = OtherEncode.threw
        /\ ~enc.threw =>
              /\ enc.canonical = OtherEncode.canonical
              /\ enc.period = OtherEncode.period
              /\ enc.arc = OtherEncode.arc
              /\ enc.bar = OtherEncode.bar
              /\ enc.beat = OtherEncode.beat
              /\ enc.msOffsetInBeat = OtherEncode.msOffsetInBeat
              /\ enc.arcStartMsInYear = OtherEncode.arcStartMsInYear
              /\ enc.arcEndMsInYear = OtherEncode.arcEndMsInYear

\* what the decode of the other codec file returns for the same string
OtherDecode == Decode(OtherImpl, alphadec, canon)

\* C20: for every string that matches the canonical pattern the decode of
\* src/lib/alphadec.js and the decode of the other codec file return the
\* same instant.
C20_DecodeParity ==
    (Decoded /\ HasCanonicalShape(canon)) =>
        /\ ~dec.threw
        /\ ~OtherDecode.threw
        /\ dec.value = OtherDecode.value

\* floor(yearTotalMs * beats / 67600) in the year of the encoded instant
BeatBoundaryFloor(beats) ==
    BigDiv(BigMul(YearTotalMs(getUTCFullYear(d)), Big[beats]), Big[BEATS_IN_YEAR])

\* period*2600 + arc*260 of an encode result
ArcStartBeats(e) == (e.period * 2600) + (e.arc * 260)

\* C21: for every instant the arc bounds that encode returns contain it,
\* arcStartMsInYear <= msSinceYearStart < arcEndMsInYear, where
\* arcStartMsInYear = floor(yearTotalMs * (period*2600 + arc*260) / 67600)
\* and arcEndMsInYear is the same for 260 beats later.
C21_ArcContainsInstant ==
    (Encoded /\ ~enc.threw) =>
        /\ enc.arcStartMsInYear = BeatBoundaryFloor(ArcStartBeats(enc))
        /\ enc.arcEndMsInYear = BeatBoundaryFloor(ArcStartBeats(enc) + 260)
        /\ BigLe(enc.arcStartMsInYear, OffsetInYear(d))
        /\ BigLt(OffsetInYear(d), enc.arcEndMsInYear)

\* the canonical string of the round trip has been encoded again
Reencoded == pc = "again"

C23_DecodedInNamedYear ==
    (Decoded /\ HasCanonicalShape(canon)) =>
        /\ ~dec.threw
        /\ IsValidDate(dec.value)
        /\ getUTCFullYear(dec.value) = ParseDigits[SubSeq(canon, 1, 4)]

\* clock_delta_utc was called with two valid timestamps
ValidDeltaPair ==
    /\ Served("clock_delta_utc")
    /\ ~(Falsy(request.args.start) /\ Falsy(request.args.end))
    /\ Falsy(request.args.start) \/ Test(ISO_UTC_SECONDS_RE, request.args.start.value)
    /\ Falsy(request.args.end) \/ Test(ISO_UTC_SECONDS_RE, request.args.end.value)
    /\ IsValidDate(DeltaDate(request.args.start))
    /\ IsValidDate(DeltaDate(request.args.end))

EarlierTimestamp ==
    IF DateCmp(DeltaDate(request.args.start), DeltaDate(request.args.end)) > 0
    THEN DeltaDate(request.args.end) ELSE DeltaDate(request.args.start)

LaterTimestamp ==
    IF DateCmp(DeltaDate(request.args.start), DeltaDate(request.args.end)) > 0
    THEN DeltaDate(request.args.start) ELSE DeltaDate(request.args.end)

\* date moved forward n calendar years (same month, day of month and time;
\* 29 February becomes 1 March in a common year)
YearsLater(date, n) ==
    MakeDate(MakeDay(getUTCFullYear(date) + n, getUTCMonth(date), getUTCDate(date)),
             date.ms)

\* range in which the number of complete years is looked for
MaxYearsApart == 10

\* the largest n such that the earlier timestamp moved forward n calendar
\* years is not after the later one
CompleteYears ==
    CHOOSE n \in 0..MaxYearsApart :
        /\ DateCmp(YearsLater(EarlierTimestamp, n), LaterTimestamp) <= 0
        /\ \A k \in (n + 1)..MaxYearsApart :
               DateCmp(YearsLater(EarlierTimestamp, k), LaterTimestamp) > 0

\* days, hours, minutes and seconds of a breakdown, in milliseconds
BreakdownMs(b) ==
    BigMul(Big[(((((b.days * 24) + b.hours) * 60) + b.minutes) * 60) + b.seconds],
           Big[1000])

\* C24: for every pair of valid timestamps breakdown.years of clock_delta_utc
\* is the number of complete calendar years from the earlier to the later
\* timestamp, and days, hours, minutes and seconds are the exact remainder
\* after those years, with days <= 365, hours < 24, minutes < 60 and
\* seconds < 60.
C24_BreakdownIsCompleteYearsAndRemainder ==
    ValidDeltaPair =>
        /\ "error" \notin DOMAIN response
        /\ response.content[1].text.json.breakdown.years = CompleteYears
        /\ BreakdownMs(response.content[1].text.json.breakdown)
               = DateDiff(LaterTimestamp, YearsLater(EarlierTimestamp, CompleteYears))
        /\ response.content[1].text.json.breakdown.days \in 0..365
        /\ response.content[1].text.json.breakdown.hours \in 0..23
        /\ response.content[1].text.json.breakdown.minutes \in 0..59
        /\ response.content[1].text.json.breakdown.seconds \in 0..59

\* clock_get accepted the request and returned its entries
ClockGetAnswered == Served("clock_get") /\ "error" \notin DOMAIN response

\* the timezone fields of the entries of the response, in order
EntryZones ==
    [k \in 1..Len(response.content[1].text.json) |->
        response.content[1].text.json[k].timezone]

\* the zones of the request, in order
RequestedZones ==
    IF request.args.timezones = Undefined THEN <<>> ELSE request.args.timezones.value

IsIanaName(tz) == ~isPseudo(tz)

\* C25: for every accepted clock_get request the entries hold exactly one UTC
\* entry and exactly one Alphadec entry, the Alphadec entry is the last one,
\* the entries of the IANA zones are those of the request in request order,
\* and a request without timezones gets exactly the UTC and the Alphadec
\* entry.
C25_EntriesOfClockGet ==
    ClockGetAnswered =>
        /\ Cardinality({ k \in DOMAIN EntryZones : EntryZones[k] = "UTC" }) = 1
        /\ Cardinality({ k \in DOMAIN EntryZones : EntryZones[k] = "Alphadec" }) = 1
        /\ EntryZones[Len(EntryZones)] = "Alphadec"
        /\ SelectSeq(EntryZones, IsIanaName) = SelectSeq(RequestedZones, IsIanaName)
        /\ (RequestedZones = <<>> => EntryZones = <<"UTC", "Alphadec">>)
        /\ \A k \in DOMAIN EntryZones :
               DOMAIN response.content[1].text.json[k] =
                   IF EntryZones[k] = "UTC" THEN {"timezone", "iso", "unixtime"}
                   ELSE IF EntryZones[k] = "Alphadec"
                   THEN {"timezone", "alphadec"}
                            \cup (DOMAIN response.content[1].text.json[k] \cap {"readable"})
                   ELSE {"timezone", "time12", "time24", "dayName", "date"}

C25_Witness ==
    /\ ClockGetAnswered
    /\ RequestedZones = <<"UTC", "Alphadec", "UTC", "Asia/Kolkata">>
    /\ EntryZones = <<"UTC", "Asia/Kolkata", "Alphadec">>
    /\ request.version = "2025_S1N6"

\* clock_delta_alphadec returned a result for two 4-character codes
DeltaAlphadecAnswered == Served("clock_delta_alphadec") /\ "error" \notin DOMAIN response

\* beat index that a 4-character code names
CodeBeatIndex(code) ==
    ((IndexOf(Letters, code[1]) - 1) * 2600) + ((IndexOf(Digits, code[2]) - 1) * 260)
        + ((IndexOf(Letters, code[3]) - 1) * 10) + (IndexOf(Digits, code[4]) - 1)

IsNegativeText(s) == Head(s) = "-"

\* C26: for every pair of 4-character codes iso_time_difference and
\* alphadec_unit_delta have the same sign: both are negative exactly when
\* alphadec_end has a smaller beat index than alphadec_start, and both are
\* zero exactly when the two codes are equal (in either codec file).
C26_DeltaSignsAgree ==
    DeltaAlphadecAnswered =>
        /\ IsNegativeText(response.content[1].text.json.iso_time_difference)
               <=> IsNegativeText(response.content[1].text.json.alphadec_unit_delta)
        /\ IsNegativeText(response.content[1].text.json.iso_time_difference)
               <=> CodeBeatIndex(request.args.alphadec_end)
                       < CodeBeatIndex(request.args.alphadec_start)
        /\ response.content[1].text.json.iso_time_difference
                   = <<"0", ":", "0", "0", ":", "0", "0">>
               <=> request.args.alphadec_start = request.args.alphadec_end
        /\ response.content[1].text.json.alphadec_unit_delta
                   = <<"0", "0", ":", "0", "0", ":", "0", "0", ":", "0", "0">>
               <=> request.args.alphadec_start = request.args.alphadec_end

C26_Witness ==
    /\ DeltaAlphadecAnswered
    /\ request.args.alphadec_start = <<"C", "1", "Y", "9">>
    /\ request.args.alphadec_end = <<"A", "2", "B", "3">>
    /\ IsNegativeText(response.content[1].text.json.iso_time_difference)
    /\ IsNegativeText(response.content[1].text.json.alphadec_unit_delta)
    /\ impl = "lib"

\* clock_convert_unixtime converted a number of seconds to a UTC ISO string
UnixtimeConverted ==
    /\ Served("clock_convert_unixtime")
    /\ request.args.direction = "unixtime_to_utc"
    /\ "error" \notin DOMAIN response

\* what clock_convert_unixtime returns when the utc_iso of the response is
\* given back to it with direction utc_to_unixtime
FedBack ==
    clock_convert_unixtime_handler(
        [direction |-> "utc_to_unixtime", value |-> response.content[1].text.json.utc_iso],
        request.env).response

\* C27: for every non-negative number n of seconds in the range of Date, the
\* utc_iso that direction unixtime_to_utc returns for n is accepted by
\* direction utc_to_unixtime, which returns n.
C27_UnixtimeRoundTrips ==
    UnixtimeConverted =>
        /\ "error" \notin DOMAIN FedBack
        /\ FedBack.content[1].text.json.unix_timestamp
               = response.content[1].text.json.source_unix_timestamp

\* the date clock_day_info reports on: the argument, or today in UTC
ResolvedDay ==
    DateParse((IF request.args.date = Undefined THEN toUTCDateStr(request.env.now)
               ELSE request.args.date.value)
                  \o <<"T", "0", "0", ":", "0", "0", ":", "0", "0", ".", "0", "0", "0", "Z">>,
              FALSE)

\* clock_day_info was called for a date of the calendar
ValidCalendarDate == Served("clock_day_info") /\ IsValidDate(ResolvedDay)

\* day number of the Thursday of the ISO week that holds day number day
ThursdayOf(day) == day - ((((day + 4) % 7) + 6) % 7) + 3

\* ISO-8601 week number: the Thursday of the week is the n-th Thursday of
\* its year
IsoWeekNumber(day) ==
    ((ThursdayOf(day)
         - DayFromYear(getUTCFullYear([day |-> ThursdayOf(day), ms |-> 0]))) \div 7) + 1

\* C28: for every valid calendar date clock_day_info returns day_of_year in
\* 1..days_in_year, days_in_year = 366 exactly for the leap years of the
\* Gregorian calendar and 365 otherwise, and iso_week equal to the ISO-8601
\* week number of the date, which is in 1..53.
C28_DayInfoFields ==
    ValidCalendarDate =>
        /\ "error" \notin DOMAIN response
        /\ response.content[1].text.json.days_in_year
               = (IF IsLeapYear(getUTCFullYear(ResolvedDay)) THEN 366 ELSE 365)
        /\ response.content[1].text.json.day_of_year
               \in 1..response.content[1].text.json.days_in_year
        /\ response.content[1].text.json.day_of_year
               = (ResolvedDay.day - DayFromYear(getUTCFullYear(ResolvedDay))) + 1
        /\ response.content[1].text.json.iso_week = IsoWeekNumber(ResolvedDay.day)
        /\ response.content[1].text.json.iso_week \in 1..53
====
